---- MODULE Spec2Model ----
(***************************************************************************)
(* web-proxy-api: the account selector (server/utils/selector.ts), the     *)
(* DeepSeek adapter's use of it (server/utils/projects/deepseek/index.ts)  *)
(* and the Grok token ranking (utils/grok client and accounts).            *)
(***************************************************************************)
EXTENDS Integers, Sequences, FiniteSets, TLC

\* ------------------------------------------------------------------------
\* Bounds of the model
\* ------------------------------------------------------------------------
\* Number of clock steps a behaviour may take: with arbitrary callers and with
\* DeepSeek requests, and in the skip-window runs.
SelTicks == 1
MaxTicks == 2
\* Milliseconds one clock step adds to Date.now().
TickMs == 30000
\* Number of DeepSeek requests in a behaviour.
NumRequests == 2
\* Known remaining quotas a Grok token may carry: a low and a high one.
LowQuota == 2
MaxQuota == 5
\* Number of rate-limit polls that may be under way when a Grok request starts.
MaxPolls == 1
\* The time at which the token cache is first used, and the number of times its
\* clock advances afterwards.
StartTime == 600000
MaxElapses == 2
\* Number of upstream lines and keep-alive ticks of one DeepSeek response stream.
MaxLines == 3
\* Number of frames of an SSE stream that is aggregated into one completion.
MaxFrames == 3

\* ------------------------------------------------------------------------
\* Program constants
\* ------------------------------------------------------------------------
\* skipAccount(model, fileName, durationMs = 30_000)
DefaultSkipMs == 30000
\* grok client: const MAX_FAILURES = 3
MAX_FAILURES == 3
\* TokenCache.CACHE_TTL = 5 * 60 * 1000 and TokenCache.SCAN_INTERVAL = 30 * 1000
CACHE_TTL == 300000
SCAN_INTERVAL == 30000

Accounts == {"x", "y"}
Models == {"deepseek-chat", "deepseek-reasoner"}
NoAccount == "none"
Requests == 1..NumRequests
MaxNow == TickMs * (MaxTicks + 1)
ShortNow == TickMs * (SelTicks + 1)

VARIABLES
    accountMap,    \* selector.ts accountMap: the registered file names
    inUse,         \* Account.inUse of every account object
    order,         \* ModelState.order per model
    cursor,        \* ModelState.cursor per model
    skippedUntil,  \* ModelState.skippedUntil per model; 0 = no entry
    now,           \* Date.now()
    last,          \* the last selector call and what it returned
    leased,        \* history: per account, the acquires that returned it since its last release
    skipEnd,       \* history: t + d of the latest skip(m, c, d) not followed by clearSkip
    skipMaxEnd,    \* history: largest t + d over the skips since the last clearSkip(m, c)
    s4,            \* history: how far the run has followed the skip scenario
    accountEntries,\* accounts.ts cachedAccountEntries.deepseek: the file names with a record
    hasToken,      \* the records that carry a token
    pc,            \* per DeepSeek request: where DeepSeekHandler stands
    reqModel,      \* per request: body.model
    reqAccount,    \* per request: the account selectAccount returned
    result,        \* per request: how the request ended
    releases,      \* history: per request, the releaseAccount calls it has made
    clientClosed,  \* per request: the client has closed the connection
    failedAt,      \* history: per model and account, the time of its last completion failure
    tokenData,     \* grok token-store tokenData: ssoNormal and ssoSuper, in insertion order
    grokSel,       \* the last Grok token selection: the model asked for and what came back
    grokReq,       \* the Grok completion request in flight: where grokRequest stands
    polls,         \* the rate-limit polls started and not yet over: <<token, model>>
    grokLast,      \* the last write to the token store: the call, the token, the status
    okSince,       \* history: per token, its last completion request succeeded
    disk,          \* accounts/<project>/: per file name, what the file holds
    cached,        \* ProjectCache.tokens: per file name, the cached entry if any
    fileList,      \* ProjectCache.fileList
    lastScan,      \* ProjectCache.lastScan
    watching,      \* TokenCache.watchers has the project
    events,        \* the change events the watcher has not delivered yet
    time,          \* Date.now() as the token cache reads it
    elapses,       \* the number of times the clock has advanced
    getOp,         \* the getToken call waiting for readFile: its file name
    listOp,        \* a getTokenList call is waiting for readdir
    held,          \* the object the last getToken returned, as its caller holds it
    ret,           \* what the getToken that returned in this step returned
    listed,        \* what the getTokenList that returned in this step returned
    mgmt,          \* the last tokens/add or tokens/delete call and how far it is
    changedSince,  \* history: the files changed from outside since the cache last read them
    sse,           \* the DeepSeek response stream being translated: translator, model, locals
    out,           \* the frames enqueued on the OpenAI output stream, in order
    agg,           \* aggregateSseToOpenAICompletion: the stream left to read and its locals
    configKeys,    \* config.keys
    call,          \* the chat completions request being served: entry point, header, progress
    proxyPool,     \* proxy-pool.ts: staticProxy, poolUrl, currentProxy, lastFetchTime, fetchInterval, enabled
    proxyOp,       \* the last operation on the proxy pool and what it did
    retrying,      \* grokRequest: position in the 403 retry loop and the proxy of the attempt
    proxyHist,     \* history: the configuration read, the last pool fetch, the last installing fetch
    cacheDir,      \* data/temp/<cacheType>: per file whether it exists, its size and mtime
    download,      \* CacheService.download: per call its position in the retry loops
    cleaning,      \* CacheService.cleanup: cleanupInProgress, the entries read and the total
    mediaHist,     \* history: number of writes, the newest mtime evicted
    selOp,         \* the last call of the selector: operation, account, whether it repeats
    policy,        \* the Grok calls that share the retry policy: position, counters, proxy calls
    race,          \* getToken in flight: what readFile read, invalidations and changes since
    fetching,      \* the callers whose fetch to the proxy pool URL is in progress
    acct,          \* one Grok account file, its cache entry, and the operations on it
    svc,           \* the token refresh service: flags, timers, cycles, lastRefreshTimes
    grokStream,    \* streamGrok: where the generator is and the frames it has yielded
    img            \* GET /images/*: the last request, the path resolved, the answer

selVars == <<accountMap, inUse, order, cursor, skippedUntil>>
skipHist == <<skipEnd, skipMaxEnd, s4>>
dsVars == <<accountEntries, hasToken, pc, reqModel, reqAccount, result, releases,
            clientClosed, failedAt>>
reqVars == <<grokReq, polls, grokLast, okSince>>
grokVars == <<tokenData, grokSel, reqVars>>
cacheVars == <<disk, cached, fileList, lastScan, watching, events, time, elapses,
               getOp, listOp, held, ret, listed, mgmt, changedSince>>
sseVars == <<sse, out>>
proxyVars == <<proxyPool, proxyOp, retrying, proxyHist>>
mediaVars == <<cacheDir, download, cleaning, mediaHist>>
lateVars == <<policy, race, fetching, acct, svc, grokStream, img>>
sideVars == <<agg, configKeys, call, proxyVars, mediaVars, selOp, lateVars>>
vars == <<accountMap, inUse, order, cursor, skippedUntil, now, last, leased,
          skipEnd, skipMaxEnd, s4, accountEntries, hasToken, pc, reqModel,
          reqAccount, result, releases, clientClosed, failedAt, tokenData, grokSel,
          grokReq, polls, grokLast, okSince, disk, cached, fileList, lastScan,
          watching, events, time, elapses, getOp, listOp, held, ret, listed,
          mgmt, changedSince, sse, out, agg, configKeys, call,
          proxyPool, proxyOp, retrying, proxyHist,
          cacheDir, download, cleaning, mediaHist, selOp,
          policy, race, fetching, acct, svc, grokStream, img>>

Max(a, b) == IF a >= b THEN a ELSE b

Contains(seq, e) == \E i \in 1..Len(seq) : seq[i] = e

\* ------------------------------------------------------------------------
\* selector.ts
\* ------------------------------------------------------------------------

\* upsertAccount, mutated: an account that is registered again gets a fresh
\* object with inUse = false.
upsertAccountFresh(st, account) ==
    [map |-> st.map \cup {account}, inUse |-> [st.inUse EXCEPT ![account] = FALSE]]

\* upsertAccount(account): st = [map, inUse]
upsertAccount(st, account) ==
    IF account \in st.map
    THEN st
    ELSE [map |-> st.map \cup {account}, inUse |-> [st.inUse EXCEPT ![account] = FALSE]]

RECURSIVE upsertAll(_, _)
upsertAll(st, accounts) ==
    IF accounts = <<>> THEN st
    ELSE upsertAll(upsertAccount(st, Head(accounts)), Tail(accounts))

\* the inner loop of registerAccount, mutated: every account is pushed
pushAll(ord, accounts) == ord \o accounts

\* the inner loop of registerAccount: push every account the ring lacks
RECURSIVE pushMissing(_, _)
pushMissing(ord, accounts) ==
    IF accounts = <<>> THEN ord
    ELSE pushMissing(IF Contains(ord, Head(accounts)) THEN ord
                     ELSE Append(ord, Head(accounts)),
                     Tail(accounts))

\* isSkipped, mutated: an entry whose time has passed still counts as skipped.
isSkippedNoExpiry(skp, fileName, t) ==
    [skipped |-> skp[fileName] # 0, map |-> skp]

\* isSkipped(state, fileName, now): the answer and the map after the call
\* (an entry whose time has passed is deleted).
isSkipped(skp, fileName, t) ==
    LET until == skp[fileName] IN
    IF until = 0 THEN [skipped |-> FALSE, map |-> skp]
    ELSE IF until <= t THEN [skipped |-> FALSE, map |-> [skp EXCEPT ![fileName] = 0]]
    ELSE [skipped |-> TRUE, map |-> skp]

\* One iteration, mutated: the cursor is advanced without the modulo.
scanStepNoWrap(ord, cur, skp, map, use, t) ==
    LET total == Len(ord)
        index == cur % total
        fileName == ord[index + 1]
        sk == isSkipped(skp, fileName, t)
    IN  IF fileName \notin map
        THEN [account |-> NoAccount, cursor |-> index + 1, map |-> skp]
        ELSE IF use[fileName]
        THEN [account |-> NoAccount, cursor |-> index + 1, map |-> skp]
        ELSE IF sk.skipped
        THEN [account |-> NoAccount, cursor |-> index + 1, map |-> sk.map]
        ELSE [account |-> fileName, cursor |-> index + 1, map |-> sk.map]

\* One iteration, mutated: the cursor is advanced only past an entry that is passed over.
scanStepCursorStays(ord, cur, skp, map, use, t) ==
    LET total == Len(ord)
        index == cur % total
        fileName == ord[index + 1]
        sk == isSkipped(skp, fileName, t)
    IN  IF fileName \notin map
        THEN [account |-> NoAccount, cursor |-> (index + 1) % total, map |-> skp]
        ELSE IF use[fileName]
        THEN [account |-> NoAccount, cursor |-> (index + 1) % total, map |-> skp]
        ELSE IF sk.skipped
        THEN [account |-> NoAccount, cursor |-> (index + 1) % total, map |-> sk.map]
        ELSE [account |-> fileName, cursor |-> index, map |-> sk.map]

\* One iteration of the while loop of selectAccount: the entry at the cursor,
\* the cursor after it, and the account if it is taken.
scanStep(ord, cur, skp, map, use, t) ==
    LET total == Len(ord)
        index == cur % total
        fileName == ord[index + 1]
        sk == isSkipped(skp, fileName, t)
    IN  IF fileName \notin map
        THEN [account |-> NoAccount, cursor |-> (index + 1) % total, map |-> skp]
        ELSE IF use[fileName]
        THEN [account |-> NoAccount, cursor |-> (index + 1) % total, map |-> skp]
        ELSE IF sk.skipped
        THEN [account |-> NoAccount, cursor |-> (index + 1) % total, map |-> sk.map]
        ELSE [account |-> fileName, cursor |-> (index + 1) % total, map |-> sk.map]

\* while (scanned < total) { ... } return null
RECURSIVE selectLoop(_, _, _, _, _, _, _)
selectLoop(ord, cur, skp, map, use, t, scanned) ==
    IF scanned >= Len(ord)
    THEN [account |-> NoAccount, cursor |-> cur, map |-> skp, scanned |-> scanned]
    ELSE LET s == scanStep(ord, cur, skp, map, use, t) IN
         IF s.account # NoAccount
         THEN [account |-> s.account, cursor |-> s.cursor, map |-> s.map,
               scanned |-> scanned + 1]
         ELSE selectLoop(ord, s.cursor, s.map, map, use, t, scanned + 1)

\* selectAccount(model): the account (or NoAccount), the cursor and skip map it
\* leaves, and the number of ring positions it examined.
selectAccount(m) ==
    IF Len(order[m]) = 0
    THEN [account |-> NoAccount, cursor |-> cursor[m], map |-> skippedUntil[m],
          scanned |-> 0]
    ELSE selectLoop(order[m], cursor[m], skippedUntil[m], accountMap, inUse, now, 0)

\* The state change of selectAccount(model) with result r.
applySelect(m, r) ==
    /\ cursor' = [cursor EXCEPT ![m] = r.cursor]
    /\ skippedUntil' = [skippedUntil EXCEPT ![m] = r.map]
    /\ inUse' = IF r.account # NoAccount
                THEN [inUse EXCEPT ![r.account] = TRUE] ELSE inUse
    /\ UNCHANGED <<accountMap, order>>

\* releaseAccount, mutated: the flag is left as it was.
releaseAccountKeeps(use, map, fileName) == use

\* releaseAccount, mutated: the flag is flipped.
releaseAccountFlips(use, map, fileName) ==
    IF fileName \notin map THEN use ELSE [use EXCEPT ![fileName] = ~@]

\* releaseAccount(fileName): the inUse flags after the call
releaseAccount(use, map, fileName) ==
    IF fileName \notin map THEN use ELSE [use EXCEPT ![fileName] = FALSE]

\* skipAccount, mutated: the window is not written.
skipUntilNone(t, durationMs) == 0

\* skipAccount: until = Date.now() + Math.max(0, durationMs)
skipUntil(t, durationMs) == t + Max(0, durationMs)

\* ------------------------------------------------------------------------
\* The selector under arbitrary callers
\* ------------------------------------------------------------------------
NoCall == [op |-> "none", model |-> "none", account |-> NoAccount, scanned |-> 0]

\* No Grok token is stored and none has been asked for.
NoSelection == [model |-> "none", token |-> "none", tokenType |-> "none",
                queued |-> "none"]
\* The raw SSO values a store may hold.
Tokens == {"A", "B", "C", "D"}

\* No Grok completion request has been made.
NoRequest == [pc |-> "idle", model |-> "none", token |-> "none", outer |-> 0,
              retry403 |-> 0, total403 |-> 0, result |-> "none", http |-> 0]
NoWrite == [op |-> "none", token |-> "none", status |-> 0]
ReqIdle ==
    /\ grokReq = NoRequest
    /\ polls = {}
    /\ grokLast = NoWrite
    /\ okSince = [t \in Tokens |-> FALSE]

\* The credential file of one project directory, and a file that is not a
\* credential file.
Files == {"a.json"}
Names == Files \cup {"notes.txt"}

\* What a file holds: nothing (the file does not exist), text that is not JSON,
\* or a JSON document. json is the document JSON.parse returns, <<>> if it throws.
missing == [exists |-> FALSE, json |-> <<>>]
corrupt == [exists |-> TRUE, json |-> <<>>]
document(data) == [exists |-> TRUE, json |-> <<data>>]
Documents == [remainingQueries : {0, MaxQuota}]
Contents == {missing, corrupt} \cup {document(d) : d \in Documents}

\* No getToken and no getTokenList has returned in this step; no object is held;
\* no management call has been made.
null == <<>>
NoRet == [file |-> "none", data |-> null, read |-> FALSE]
NoList == <<>>
NoHeld == [file |-> "none", data |-> null]
NoMgmt == [op |-> "none", file |-> "none", pc |-> "none", intact |-> FALSE]

\* new TokenCache(), and getProjectCache: tokens: new Map(), fileList: [],
\* lastScan: 0. A project cache is never removed (nothing calls clearAll), and
\* every method treats a project without a cache as one with this empty cache.
getProjectCache ==
    /\ cached = [f \in Files |-> <<>>]
    /\ fileList = {}
    /\ lastScan = 0
    /\ watching = FALSE

\* The token cache has not been used and the project directory is empty.
CacheIdle ==
    /\ disk = [n \in Names |-> missing]
    /\ getProjectCache
    /\ events = {}
    /\ time = StartTime
    /\ elapses = 0
    /\ getOp = "none"
    /\ listOp = FALSE
    /\ held = NoHeld
    /\ ret = NoRet
    /\ listed = NoList
    /\ mgmt = NoMgmt
    /\ changedSince = {}

\* No DeepSeek response stream is being translated.
NoStream == [via |-> "none", model |-> "none", pc |-> "idle", firstChunkSent |-> FALSE,
             finished |-> FALSE, timer |-> FALSE, dropping |-> FALSE,
             upstream |-> "open", lines |-> 0]
SseIdle ==
    /\ sse = NoStream
    /\ out = <<>>

\* aggregateSseToOpenAICompletion has not been called.
NoAggregation == [pc |-> "idle", rest |-> <<>>, buffer |-> <<>>, content |-> <<>>,
                  reasoningContent |-> <<>>, completion |-> <<>>,
                  deltaContent |-> <<>>, deltaReasoning |-> <<>>, cut |-> FALSE]

\* The components below have not been used.
\* No chat completions request has arrived.
NoCompletionCall == [via |-> "none", scheme |-> "none", key |-> "", padded |-> FALSE,
                     family |-> "none", bodyOk |-> FALSE, pc |-> "idle",
                     authToken |-> "", status |-> 0, upstream |-> "none"]

\* A URL or proxy string: its scheme, the rest, and whether blanks surround it
Url(scheme, host) == [scheme |-> scheme, host |-> host, blank |-> FALSE]
EmptyString == Url("", "")

\* let fetchInterval = 300
DefaultInterval == 300

\* The module variables of proxy-pool.ts as the module is loaded
ModuleLoaded == [staticProxy |-> null, poolUrl |-> null, currentProxy |-> null,
                 lastFetchTime |-> 0, fetchInterval |-> DefaultInterval, enabled |-> FALSE]
NoPoolResponse == [kind |-> "none"]
NoProxyOp == [op |-> "none", caller |-> "none", fetched |-> FALSE,
              resp |-> NoPoolResponse, returned |-> null, flip |-> FALSE]
NoRetrying == [pc |-> "idle", retry403 |-> 0, proxy |-> null, refreshed |-> null,
               wake |-> 0]
NoProxyHist == [configured |-> FALSE, proxy_url |-> EmptyString,
                proxy_pool_url |-> EmptyString, lookedUp |-> FALSE,
                fetchedAt |-> null, fetcher |-> "none", installedAt |-> null]

ProxyIdle ==
    /\ proxyPool = ModuleLoaded
    /\ proxyOp = NoProxyOp
    /\ retrying = NoRetrying
    /\ proxyHist = NoProxyHist

\* The files of the cache directory: one left by an earlier run, and the
\* files of the two asset paths that are downloaded
OldFile == "o"
AssetPaths == {"a", "b"}
CacheFiles == AssetPaths \cup {OldFile}
Downloads == {"d1", "d2"}
NoFile == [exists |-> FALSE, size |-> 0, mtime |-> 0]
NoDownload == [pc |-> "idle", path |-> "none", outer |-> 0, retry403 |-> 0,
               result |-> "none"]
\* private cleanupInProgress = false
NoCleanup == [cleanupInProgress |-> FALSE, pc |-> "idle", entries |-> <<>>, total |-> 0]
NoMediaHist == [writes |-> 0, evicted |-> 0, newestEvicted |-> -1]

MediaIdle ==
    /\ cacheDir = [f \in CacheFiles |-> NoFile]
    /\ download = [d \in Downloads |-> NoDownload]
    /\ cleaning = NoCleanup
    /\ mediaHist = NoMediaHist

\* The Grok calls that share the retry policy, and none of them under way
PolicyCallers == {"grokRequest", "getRateLimit", "uploadImage", "download"}
NoPolicyCall == [pc |-> "idle", outer |-> 0, retry403 |-> 0, status |-> "none",
                 calls |-> <<>>]

\* No readFile of getToken has finished; nothing has been invalidated.
NoRace == [read |-> <<>>, invalidated |-> FALSE, raced |-> FALSE, changedAfter |-> FALSE]

\* Who works on the account file: two requests and the background refresher
AccountAgents == {"r1", "r2", "refresher"}
MaxAccountOps == 3
ObjIds == 1 .. (MaxAccountOps + 1)
NoDoc == [failedCount |-> 0, status |-> "active"]
NoAgent == [pc |-> "idle", op |-> "none", status |-> 0, obj |-> 0, text |-> NoDoc]

\* Before initAccounts: nothing read, nothing cached, nobody at work.
NoAccountOps ==
    [booted |-> FALSE, file |-> NoDoc, cache |-> 0, heap |-> [o \in ObjIds |-> NoDoc],
     used |-> 0, ag |-> [a \in AccountAgents |-> NoAgent], ops |-> 0,
     start |-> 0, fails |-> 0, onlyFailures |-> TRUE]

\* Date.now() when the server boots (ms): far more than an hour after 1970
BootClock == 10 * 3600000

\* The refresher's tokens and the runs of refreshAllTokens that may overlap
RefreshTokens == <<"t1.json", "t2.json">>
Cycles == {1, 2}
NoCycle == [pc |-> "idle", now |-> 0, rest |-> <<>>, prev |-> -1, at |-> 0]

\* token-refresh.ts as loaded: serviceEnabled = false, refreshTimer = null,
\* lastRefreshTimes empty
NoService ==
    [started |-> FALSE, stopped |-> FALSE, serviceEnabled |-> FALSE, refreshTimer |-> FALSE,
     initial |-> FALSE, clock |-> BootClock, due |-> 0, nextTick |-> 0,
     lastRefreshTimes |-> [t \in {"t1.json", "t2.json"} |-> 0],
     docs |-> [t \in {"t1.json", "t2.json"} |-> NoDoc],
     cycle |-> [c \in Cycles |-> NoCycle],
     polled |-> [t \in {"t1.json", "t2.json"} |-> -1],
     pollAfterStop |-> FALSE, writeAfterStop |-> FALSE]

\* streamGrok has not been called.
NoGrokStream == [pc |-> "idle", showThinking |-> TRUE, lines |-> 0, frames |-> <<>>]

\* No image has been asked for.
NoImageRequest == [pathParam |-> <<>>, filePath |-> <<>>, status |-> "none"]

LateIdle ==
    /\ policy = [c \in PolicyCallers |-> NoPolicyCall]
    /\ race = NoRace
    /\ fetching = {}
    /\ acct = NoAccountOps
    /\ svc = NoService
    /\ grokStream = NoGrokStream
    /\ img = NoImageRequest

\* The selector has not been called.
NoSelectorCall == [op |-> "none", account |-> "none", accounts |-> <<>>, models |-> <<>>,
                   again |-> FALSE, held |-> FALSE]

SideIdle ==
    /\ agg = NoAggregation
    /\ configKeys = {}
    /\ call = NoCompletionCall
    /\ ProxyIdle
    /\ MediaIdle
    /\ selOp = NoSelectorCall
    /\ LateIdle

GrokIdle ==
    /\ tokenData = [ssoNormal |-> <<>>, ssoSuper |-> <<>>]
    /\ grokSel = NoSelection
    /\ ReqIdle
    /\ CacheIdle
    /\ SseIdle
    /\ SideIdle

\* No DeepSeek request has been made.
DsIdle ==
    /\ pc = [r \in Requests |-> "idle"]
    /\ reqModel = [r \in Requests |-> "none"]
    /\ reqAccount = [r \in Requests |-> NoAccount]
    /\ result = [r \in Requests |-> "none"]
    /\ releases = [r \in Requests |-> 0]
    /\ clientClosed = [r \in Requests |-> FALSE]
    /\ failedAt = [m \in Models |-> [a \in Accounts |-> 0]]

SelInit ==
    /\ accountMap = {}
    /\ inUse = [a \in Accounts |-> FALSE]
    /\ order = [m \in Models |-> <<>>]
    /\ cursor = [m \in Models |-> 0]
    /\ skippedUntil = [m \in Models |-> [a \in Accounts |-> 0]]
    /\ now = TickMs
    /\ last = NoCall
    /\ leased = [a \in Accounts |-> 0]
    /\ skipEnd = [m \in Models |-> [a \in Accounts |-> 0]]
    /\ skipMaxEnd = [m \in Models |-> [a \in Accounts |-> 0]]
    /\ s4 = "off"
    /\ DsIdle
    /\ GrokIdle
    /\ accountEntries = {}
    /\ hasToken = {}

\* Argument lists of registerAccount
AccountLists == {<<"x">>, <<"y">>, <<"x", "y">>}
ModelLists == {<<"deepseek-chat">>, <<"deepseek-reasoner">>,
               <<"deepseek-chat", "deepseek-reasoner">>}

\* registerAccount(accounts, models, owner)
Register(accounts, models) ==
    LET st == upsertAll([map |-> accountMap, inUse |-> inUse], accounts)
        ms == {models[i] : i \in 1..Len(models)}
    IN  /\ accountMap' = st.map
        /\ inUse' = st.inUse
        /\ order' = [m \in Models |->
                        IF m \in ms THEN pushMissing(order[m], accounts) ELSE order[m]]
        /\ last' = NoCall
        /\ UNCHANGED <<cursor, skippedUntil, now, leased, skipEnd, skipMaxEnd>>

\* selectAccount(model)
Acquire(m) ==
    LET r == selectAccount(m) IN
    /\ applySelect(m, r)
    /\ last' = [op |-> "acquire", model |-> m, account |-> r.account,
                scanned |-> r.scanned]
    /\ leased' = IF r.account # NoAccount
                 THEN [leased EXCEPT ![r.account] = @ + 1] ELSE leased
    /\ UNCHANGED <<now, skipEnd, skipMaxEnd>>

\* releaseAccount(fileName)
Release(c) ==
    /\ inUse' = releaseAccount(inUse, accountMap, c)
    /\ last' = NoCall
    /\ leased' = [leased EXCEPT ![c] = 0]
    /\ UNCHANGED <<accountMap, order, cursor, skippedUntil, now, skipEnd, skipMaxEnd>>

\* skipAccount(model, fileName, durationMs)
Skip(m, c, d) ==
    /\ skippedUntil' = [skippedUntil EXCEPT ![m][c] = skipUntil(now, d)]
    /\ last' = NoCall
    /\ UNCHANGED <<accountMap, inUse, order, cursor, now, leased>>

\* clearSkip(model, fileName)
ClearSkip(m, c) ==
    /\ skippedUntil' = [skippedUntil EXCEPT ![m][c] = 0]
    /\ last' = NoCall
    /\ UNCHANGED <<accountMap, inUse, order, cursor, now, leased>>

\* Time passes, up to a limit.
Tick(limit) ==
    /\ now + TickMs <= limit
    /\ now' = now + TickMs
    /\ last' = NoCall
    /\ UNCHANGED <<selVars, leased, skipEnd, skipMaxEnd>>

\* Every interleaving of register, acquire, release, skip and clearSkip calls
\* over two models that share the accounts.
SelNext ==
    \/ \E accounts \in AccountLists, models \in ModelLists :
          Register(accounts, models) /\ UNCHANGED <<s4, dsVars, grokVars, cacheVars, sseVars, sideVars>>
    \/ \E m \in Models : Acquire(m) /\ UNCHANGED <<s4, dsVars, grokVars, cacheVars, sseVars, sideVars>>
    \/ \E c \in Accounts : Release(c) /\ UNCHANGED <<s4, dsVars, grokVars, cacheVars, sseVars, sideVars>>
    \/ \E m \in Models, c \in Accounts :
          Skip(m, c, DefaultSkipMs) /\ UNCHANGED <<skipHist, dsVars, grokVars, cacheVars, sseVars, sideVars>>
    \/ \E m \in Models, c \in Accounts :
          ClearSkip(m, c) /\ UNCHANGED <<skipHist, dsVars, grokVars, cacheVars, sseVars, sideVars>>
    \/ Tick(ShortNow) /\ UNCHANGED <<s4, dsVars, grokVars, cacheVars, sseVars, sideVars>>

SelectorSpec == SelInit /\ [][SelNext]_vars

\* ------------------------------------------------------------------------
\* Skip windows on one ring, with the history of the skips
\* ------------------------------------------------------------------------
SkipModel == "deepseek-chat"
\* The credentials the callers skip.
SkipTargets == Accounts
\* Durations callers pass to skipAccount.
Durations == {0, DefaultSkipMs, 2 * DefaultSkipMs}

\* The scenario: ring [x, y], both free; acquire; release(x); skip(m, x, 60 s);
\* acquire; 60 s pass; acquire. s4 names the last step of it the run has taken,
\* "off" once the run has left it.
S4After(op, c, d) ==
    IF s4 = "ready" /\ op = "acquire" THEN "acquired1"
    ELSE IF s4 = "acquired1" /\ op = "release" /\ c = "x" THEN "released"
    ELSE IF s4 = "released" /\ op = "skip" /\ c = "x" /\ d = 2 * DefaultSkipMs
    THEN "skipped"
    ELSE IF s4 = "skipped" /\ op = "acquire" THEN "acquired2"
    ELSE IF s4 = "acquired2" /\ op = "tick" THEN "acquired2"
    ELSE IF s4 = "acquired2" /\ op = "acquire" /\ now >= skipEnd[SkipModel]["x"]
    THEN "acquired3"
    ELSE "off"

SkipNext ==
    \/ \E accounts \in AccountLists :
          /\ Register(accounts, <<SkipModel>>)
          /\ s4' = IF /\ accountMap = {}
                      /\ \A c \in Accounts : skippedUntil[SkipModel][c] = 0
                      /\ accounts = <<"x", "y">>
                   THEN "ready" ELSE "off"
          /\ UNCHANGED <<dsVars, grokVars, cacheVars, sseVars, sideVars>>
    \/ Acquire(SkipModel) /\ s4' = S4After("acquire", NoAccount, 0) /\ UNCHANGED <<dsVars, grokVars, cacheVars, sseVars, sideVars>>
    \/ \E c \in Accounts : Release(c) /\ s4' = S4After("release", c, 0) /\ UNCHANGED <<dsVars, grokVars, cacheVars, sseVars, sideVars>>
    \/ \E c \in SkipTargets, d \in Durations :
          /\ Skip(SkipModel, c, d)
          /\ skipEnd' = [skipEnd EXCEPT ![SkipModel][c] = now + d]
          /\ skipMaxEnd' = [skipMaxEnd EXCEPT ![SkipModel][c] = Max(@, now + d)]
          /\ s4' = S4After("skip", c, d)
          /\ UNCHANGED <<dsVars, grokVars, cacheVars, sseVars, sideVars>>
    \/ \E c \in SkipTargets :
          /\ ClearSkip(SkipModel, c)
          /\ skipEnd' = [skipEnd EXCEPT ![SkipModel][c] = 0]
          /\ skipMaxEnd' = [skipMaxEnd EXCEPT ![SkipModel][c] = 0]
          /\ s4' = S4After("clearSkip", c, 0)
          /\ UNCHANGED <<dsVars, grokVars, cacheVars, sseVars, sideVars>>
    \/ Tick(MaxNow) /\ s4' = S4After("tick", NoAccount, 0) /\ UNCHANGED <<dsVars, grokVars, cacheVars, sseVars, sideVars>>

SkipSpec == SelInit /\ [][SkipNext]_vars

\* ------------------------------------------------------------------------
\* projects/deepseek/index.ts: DeepSeekHandler over the selector
\* ------------------------------------------------------------------------
\* The models the adapter accepts (two of the four, which differ only in the
\* flags sent upstream); the requests ask for one of them or for a model the
\* adapter rejects.
DEEPSEEK_MODELS == Models
RequestModels == {SkipModel, "gpt-4"}

\* RegisterDeepSeekAccounts at startup: every account file is registered to
\* every model; a record may or may not carry a token.
DsInit ==
    /\ accountMap = Accounts
    /\ inUse = [a \in Accounts |-> FALSE]
    /\ order = [m \in Models |-> <<"x", "y">>]
    /\ cursor = [m \in Models |-> 0]
    /\ skippedUntil = [m \in Models |-> [a \in Accounts |-> 0]]
    /\ now = TickMs
    /\ last = NoCall
    /\ leased = [a \in Accounts |-> 0]
    /\ skipEnd = [m \in Models |-> [a \in Accounts |-> 0]]
    /\ skipMaxEnd = [m \in Models |-> [a \in Accounts |-> 0]]
    /\ s4 = "off"
    /\ DsIdle
    /\ GrokIdle
    /\ accountEntries = Accounts
    /\ hasToken \in {{}, Accounts}

\* The request r ends with outcome res; the handler's locals are gone. The
\* slot keeps the outcome until the next request takes it.
finishRequest(r, res) ==
    /\ pc' = [pc EXCEPT ![r] = "done"]
    /\ result' = [result EXCEPT ![r] = res]
    /\ reqModel' = [reqModel EXCEPT ![r] = "none"]
    /\ reqAccount' = [reqAccount EXCEPT ![r] = NoAccount]
    /\ clientClosed' = [clientClosed EXCEPT ![r] = FALSE]

\* The request r goes on to the step named next.
goto(r, next) ==
    /\ pc' = [pc EXCEPT ![r] = next]
    /\ UNCHANGED <<result, reqModel, reqAccount, clientClosed>>

\* releaseAccount(account.fileName) by request r
releaseBy(r) ==
    /\ inUse' = releaseAccount(inUse, accountMap, reqAccount[r])
    /\ leased' = [leased EXCEPT ![reqAccount[r]] = 0]
    /\ releases' = [releases EXCEPT ![r] = @ + 1]

\* DeepSeekHandler up to its first wait: the model and prompt checks, and
\* resolveAccountForModel up to the login request.
DsBegin(r, m, promptOk) ==
    /\ pc[r] \in {"idle", "done"}
    /\ \A q \in Requests : q < r => pc[q] \notin {"idle", "done"}  \* lowest free slot
    /\ IF m \notin DEEPSEEK_MODELS \/ ~promptOk
       THEN /\ finishRequest(r, "bad_request")
            /\ last' = NoCall
            /\ releases' = [releases EXCEPT ![r] = 0]
            /\ UNCHANGED <<selVars, leased>>
       ELSE LET sel == selectAccount(m) IN
            /\ cursor' = [cursor EXCEPT ![m] = sel.cursor]
            /\ skippedUntil' = [skippedUntil EXCEPT ![m] = sel.map]
            /\ last' = [op |-> "acquire", model |-> m, account |-> sel.account,
                        scanned |-> sel.scanned]
            /\ UNCHANGED <<accountMap, order>>
            /\ IF sel.account = NoAccount
               THEN /\ finishRequest(r, "no_account")
                    /\ releases' = [releases EXCEPT ![r] = 0]
                    /\ UNCHANGED <<inUse, leased>>
               ELSE IF sel.account \notin accountEntries
               THEN \* selected, then released: the record is gone
                    /\ finishRequest(r, "account_missing")
                    /\ inUse' = releaseAccount([inUse EXCEPT ![sel.account] = TRUE],
                                               accountMap, sel.account)
                    /\ leased' = [leased EXCEPT ![sel.account] = 0]
                    /\ releases' = [releases EXCEPT ![r] = 1]
               ELSE /\ inUse' = [inUse EXCEPT ![sel.account] = TRUE]
                    /\ leased' = [leased EXCEPT ![sel.account] = @ + 1]
                    /\ pc' = [pc EXCEPT ![r] =
                                IF sel.account \in hasToken THEN "session" ELSE "login"]
                    /\ reqModel' = [reqModel EXCEPT ![r] = m]
                    /\ reqAccount' = [reqAccount EXCEPT ![r] = sel.account]
                    /\ result' = [result EXCEPT ![r] = "none"]
                    /\ releases' = [releases EXCEPT ![r] = 0]
                    /\ UNCHANGED clientClosed
    /\ UNCHANGED <<now, skipHist, accountEntries, hasToken, failedAt>>

\* loginDeepseekViaAccount answers; a failure leaves resolveAccountForModel by
\* the throw, outside the try block of DeepSeekHandler.
DsLogin(r, ok) ==
    /\ pc[r] = "login"
    /\ IF ok
       THEN /\ hasToken' = hasToken \cup {reqAccount[r]}
            /\ goto(r, "session")
       ELSE /\ finishRequest(r, "login_failed")
            /\ UNCHANGED hasToken
    /\ last' = NoCall
    /\ UNCHANGED <<selVars, now, leased, skipHist, accountEntries, releases, failedAt>>

\* createSession answers; a failure is caught and the account released.
DsSession(r, ok) ==
    /\ pc[r] = "session"
    /\ IF ok
       THEN /\ goto(r, "pow")
            /\ UNCHANGED <<inUse, leased, releases>>
       ELSE /\ finishRequest(r, "session_failed")
            /\ releaseBy(r)
    /\ last' = NoCall
    /\ UNCHANGED <<accountMap, order, cursor, skippedUntil, now, skipHist,
                   accountEntries, hasToken, failedAt>>

\* createPowResponse answers; a failure is caught and the account released.
DsPow(r, ok) ==
    /\ pc[r] = "pow"
    /\ IF ok
       THEN /\ goto(r, "completion")
            /\ UNCHANGED <<inUse, leased, releases>>
       ELSE /\ finishRequest(r, "pow_failed")
            /\ releaseBy(r)
    /\ last' = NoCall
    /\ UNCHANGED <<accountMap, order, cursor, skippedUntil, now, skipHist,
                   accountEntries, hasToken, failedAt>>

\* The completion request answers: "ok" opens the output stream and clears the
\* skip mark; "status" is a non-2xx answer (or one without a body): skip, then
\* the catch block releases; "throws" is a failed fetch: the catch block releases.
DsCompletion(r, outcome) ==
    /\ pc[r] = "completion"
    /\ IF outcome = "ok"
       THEN /\ skippedUntil' = [skippedUntil EXCEPT ![reqModel[r]][reqAccount[r]] = 0]
            /\ goto(r, "streaming")
            /\ UNCHANGED <<inUse, leased, releases, failedAt>>
       ELSE IF outcome = "status"
       THEN /\ skippedUntil' = [skippedUntil EXCEPT ![reqModel[r]][reqAccount[r]] =
                                   skipUntil(now, DefaultSkipMs)]
            /\ failedAt' = [failedAt EXCEPT ![reqModel[r]][reqAccount[r]] = now]
            /\ finishRequest(r, "completion_failed")
            /\ releaseBy(r)
       ELSE /\ finishRequest(r, "completion_threw")
            /\ releaseBy(r)
            /\ UNCHANGED <<skippedUntil, failedAt>>
    /\ last' = NoCall
    /\ UNCHANGED <<accountMap, order, cursor, now, skipHist, accountEntries, hasToken>>

\* What the upstream reader hands to the loop: a content event, an event the
\* loop drops, a finish signal ([DONE] or FINISHED), the end of the body, or
\* a read error.
ReadEvents == {"content", "dropped", "finish", "eof", "error"}

\* One reader.read() of the loop, with what follows from it. Writing to the
\* output stream after the client closed it throws; every way out of the
\* loop runs the finally block, which releases the account.
DsRead(r, ev) ==
    /\ pc[r] = "streaming"
    /\ IF ev = "dropped" \/ (ev = "content" /\ ~clientClosed[r])
       THEN UNCHANGED <<pc, result, reqModel, reqAccount, clientClosed, inUse,
                        leased, releases>>
       ELSE /\ finishRequest(r, IF ev = "error" \/ clientClosed[r]
                                THEN "stream_error" ELSE "stream_end")
            /\ releaseBy(r)
    /\ last' = NoCall
    /\ UNCHANGED <<accountMap, order, cursor, skippedUntil, now, skipHist,
                   accountEntries, hasToken, failedAt>>

\* The client closes the connection while the stream is open: the output
\* stream is cancelled; its underlying source defines no cancel().
DsClientClose(r) ==
    /\ pc[r] = "streaming"
    /\ ~clientClosed[r]
    /\ clientClosed' = [clientClosed EXCEPT ![r] = TRUE]
    /\ last' = NoCall
    /\ UNCHANGED <<selVars, now, leased, skipHist, accountEntries, hasToken, pc,
                   reqModel, reqAccount, result, releases, failedAt>>

\* loadAccounts runs again after account files were removed.
DsLoadAccounts(files) ==
    /\ files # accountEntries
    /\ files \subseteq accountEntries
    /\ accountEntries' = files
    /\ hasToken' = hasToken \cap files
    /\ last' = NoCall
    /\ UNCHANGED <<selVars, now, leased, skipHist, pc, reqModel, reqAccount,
                   result, releases, clientClosed, failedAt>>

DsTick == Tick(ShortNow) /\ UNCHANGED <<s4, dsVars>>

\* The steps of request r that the handler's own awaits drive.
DsStep(r) ==
    /\ \/ \E ok \in BOOLEAN : DsLogin(r, ok)
       \/ \E ok \in BOOLEAN : DsSession(r, ok)
       \/ \E ok \in BOOLEAN : DsPow(r, ok)
       \/ \E outcome \in {"ok", "status", "throws"} : DsCompletion(r, outcome)
    /\ UNCHANGED <<grokVars, cacheVars, sseVars, sideVars>>

DsNext ==
    \/ \E r \in Requests, m \in RequestModels, promptOk \in BOOLEAN :
          DsBegin(r, m, promptOk) /\ UNCHANGED <<grokVars, cacheVars, sseVars, sideVars>>
    \/ \E r \in Requests : DsStep(r)
    \/ \E r \in Requests, ev \in ReadEvents : DsRead(r, ev) /\ UNCHANGED <<grokVars, cacheVars, sseVars, sideVars>>
    \/ \E r \in Requests : DsClientClose(r) /\ UNCHANGED <<grokVars, cacheVars, sseVars, sideVars>>
    \/ \E files \in SUBSET Accounts : DsLoadAccounts(files) /\ UNCHANGED <<grokVars, cacheVars, sseVars, sideVars>>
    \/ DsTick /\ UNCHANGED <<grokVars, cacheVars, sseVars, sideVars>>

DeepSeekSpec == DsInit /\ [][DsNext]_vars

\* Every request to DeepSeek is answered or fails, so the handler's awaits on
\* login, session, proof-of-work and completion end; the upstream body may stay
\* silent for ever.
DeepSeekFairSpec ==
    DsInit /\ [][DsNext]_vars /\ \A r \in Requests : WF_vars(DsStep(r))

\* ------------------------------------------------------------------------
\* Grok token ranking: the token-store client and the account-queue variant
\* ------------------------------------------------------------------------
GrokModelNames == {"grok-4-heavy", "grok-4-fast"}
NORMAL == "ssoNormal"
SUPER == "ssoSuper"

\* Values of remainingQueries (-1 = unknown, 0 = exhausted) and of
\* heavyremainingQueries.
Quotas == {-1, 0, LowQuota, MaxQuota}
HeavyQuotas == {-1, 0, MaxQuota}
\* A token's status and failedCount: active just below the failure limit,
\* active at the limit, expired.
Healths == {[status |-> "active", failedCount |-> MAX_FAILURES - 1],
            [status |-> "active", failedCount |-> MAX_FAILURES],
            [status |-> "expired", failedCount |-> 0]}

\* A GrokTokenRecord under its key.
TokenRecord(key, health, rq, hq) ==
    [key |-> key, status |-> health.status, failedCount |-> health.failedCount,
     remainingQueries |-> rq, heavyremainingQueries |-> hq]

\* The entries a map of the store may hold: none, the first key, or both keys;
\* the second key is always healthy.
MapContents(first, second) ==
    {<<>>}
    \cup {<<TokenRecord(first, h, rq, hq)>> :
             h \in Healths, rq \in Quotas, hq \in HeavyQuotas}
    \cup {<<TokenRecord(first, h, rq, hq),
            TokenRecord(second, [status |-> "active", failedCount |-> 0], rq2, hq2)>> :
             h \in Healths, rq \in Quotas, hq \in HeavyQuotas,
             rq2 \in Quotas, hq2 \in HeavyQuotas}

\* The loop of selectBestToken passes over the record, mutated: the failure
\* limit is compared with > instead of >=.
passesOverLate(data, field) ==
    \/ data.status = "expired"
    \/ data.failedCount > MAX_FAILURES
    \/ data[field] = 0

\* The loop of selectBestToken passes over the record: expired, failed too
\* often, or no quota left in the field.
passesOver(data, field) ==
    \/ data.status = "expired"
    \/ data.failedCount >= MAX_FAILURES
    \/ data[field] = 0

\* used.sort comparator, mutated: ascending.
compareUsedAscending(a, b) == a[2] - b[2]

\* used.sort((a, b) => b[1] - a[1]): negative when a goes first
compareUsed(a, b) == b[2] - a[2]

\* Array.prototype.sort is stable: e goes behind the entries that compare
\* equal to it or before it.
RECURSIVE insertSorted(_, _)
insertSorted(sorted, e) ==
    IF sorted = <<>> THEN <<e>>
    ELSE IF compareUsed(Head(sorted), e) <= 0
    THEN <<Head(sorted)>> \o insertSorted(Tail(sorted), e)
    ELSE <<e>> \o sorted

RECURSIVE sortUsed(_, _)
sortUsed(used, sorted) ==
    IF used = <<>> THEN sorted
    ELSE sortUsed(Tail(used), insertSorted(sorted, Head(used)))

\* The for loop of selectBestToken: the keys with unknown quota and the
\* <<key, remaining>> pairs with a known one, in the order of the entries.
RECURSIVE collect(_, _, _, _)
collect(tokens, field, unused, used) ==
    IF tokens = <<>> THEN [unused |-> unused, used |-> used]
    ELSE LET data == Head(tokens)
             remaining == data[field]
         IN  IF passesOver(data, field)
             THEN collect(Tail(tokens), field, unused, used)
             ELSE IF remaining = -1
             THEN collect(Tail(tokens), field, Append(unused, data.key), used)
             ELSE IF remaining > 0
             THEN collect(Tail(tokens), field, unused,
                          Append(used, <<data.key, remaining>>))
             ELSE collect(Tail(tokens), field, unused, used)

\* selectBestToken(tokens, field) of the client: the token, or "none"
selectBestToken(tokens, field) ==
    LET c == collect(tokens, field, <<>>, <<>>) IN
    IF Len(c.unused) > 0 THEN c.unused[1]
    ELSE IF Len(c.used) > 0 THEN sortUsed(c.used, <<>>)[1][1]
    ELSE "none"

\* The field of the record the model is ranked by.
quotaField(model) ==
    IF model = "grok-4-heavy" THEN "heavyremainingQueries" ELSE "remainingQueries"

\* selectToken(model): the token and its type; token "none" when it throws
selectToken(data, model) ==
    LET field == quotaField(model)
        normal == selectBestToken(data[NORMAL], field)
        super == selectBestToken(data[SUPER], field)
    IN  IF normal # "none" THEN [token |-> normal, tokenType |-> NORMAL]
        ELSE IF super # "none" THEN [token |-> super, tokenType |-> SUPER]
        ELSE [token |-> "none", tokenType |-> SUPER]

\* The account files of the account-file variant holding the same tokens, one
\* file per token.
RECURSIVE withType(_, _)
withType(tokens, type) ==
    IF tokens = <<>> THEN <<>>
    ELSE <<[account |-> Head(tokens), tokenType |-> type]>> \o withType(Tail(tokens), type)

RECURSIVE reversed(_)
reversed(seq) ==
    IF seq = <<>> THEN <<>> ELSE Append(reversed(Tail(seq)), Head(seq))

\* accountQueue after initAccounts shuffled the files: the selection depends
\* on the order of the files of one tier only, and a queue and its reverse
\* give both orders of each tier.
accountQueues(data) ==
    LET files == withType(data[SUPER], SUPER) \o withType(data[NORMAL], NORMAL)
    IN  {files, reversed(files)}

\* The sorts of the used lists of the account-file variant: (a, b) => b.remaining - a.remaining
compareRemaining(a, b) == b[2] - a[2]

RECURSIVE insertByRemaining(_, _)
insertByRemaining(sorted, e) ==
    IF sorted = <<>> THEN <<e>>
    ELSE IF compareRemaining(Head(sorted), e) <= 0
    THEN <<Head(sorted)>> \o insertByRemaining(Tail(sorted), e)
    ELSE <<e>> \o sorted

RECURSIVE sortByRemaining(_, _)
sortByRemaining(used, sorted) ==
    IF used = <<>> THEN sorted
    ELSE sortByRemaining(Tail(used), insertByRemaining(sorted, Head(used)))

\* The for loop of selectBestToken(model) over accountQueue: the four lists.
RECURSIVE partition(_, _, _)
partition(queue, field, lists) ==
    IF queue = <<>> THEN lists
    ELSE LET account == Head(queue).account
             tokenType == Head(queue).tokenType
             remaining == account[field]
             rest == Tail(queue)
         IN  IF account.status = "expired" THEN partition(rest, field, lists)
             ELSE IF account.failedCount >= MAX_FAILURES THEN partition(rest, field, lists)
             ELSE IF remaining = 0 THEN partition(rest, field, lists)
             ELSE IF remaining = -1
             THEN IF tokenType = SUPER
                  THEN partition(rest, field,
                         [lists EXCEPT !.superUnused = Append(@, account.key)])
                  ELSE partition(rest, field,
                         [lists EXCEPT !.normalUnused = Append(@, account.key)])
             ELSE IF remaining > 0
             THEN IF tokenType = SUPER
                  THEN partition(rest, field,
                         [lists EXCEPT !.superUsed = Append(@, <<account.key, remaining>>)])
                  ELSE partition(rest, field,
                         [lists EXCEPT !.normalUsed = Append(@, <<account.key, remaining>>)])
             ELSE partition(rest, field, lists)

\* selectBestToken(model) of the account-file variant: the file name, or "none"
selectBestTokenQueued(queue, model) ==
    LET lists == partition(queue, quotaField(model),
                           [normalUnused |-> <<>>, normalUsed |-> <<>>,
                            superUnused |-> <<>>, superUsed |-> <<>>])
    IN  IF Len(lists.normalUnused) > 0 THEN lists.normalUnused[1]
        ELSE IF Len(lists.normalUsed) > 0
        THEN sortByRemaining(lists.normalUsed, <<>>)[1][1]
        ELSE IF Len(lists.superUnused) > 0 THEN lists.superUnused[1]
        ELSE IF Len(lists.superUsed) > 0
        THEN sortByRemaining(lists.superUsed, <<>>)[1][1]
        ELSE "none"

\* Any content of the token store.
GrokInit ==
    /\ accountMap = {}
    /\ inUse = [a \in Accounts |-> FALSE]
    /\ order = [m \in Models |-> <<>>]
    /\ cursor = [m \in Models |-> 0]
    /\ skippedUntil = [m \in Models |-> [a \in Accounts |-> 0]]
    /\ now = TickMs
    /\ last = NoCall
    /\ leased = [a \in Accounts |-> 0]
    /\ skipEnd = [m \in Models |-> [a \in Accounts |-> 0]]
    /\ skipMaxEnd = [m \in Models |-> [a \in Accounts |-> 0]]
    /\ s4 = "off"
    /\ DsIdle
    /\ accountEntries = {}
    /\ hasToken = {}
    /\ tokenData \in [ssoNormal : MapContents("A", "C"), ssoSuper : MapContents("B", "D")]
    /\ grokSel = NoSelection
    /\ ReqIdle
    /\ CacheIdle
    /\ SseIdle
    /\ SideIdle

\* A request for the model selects its token, in the client and in the
\* account-file variant.
GrokSelect(model, queue) ==
    /\ grokSel' = [model |-> model,
                   token |-> selectToken(tokenData, model).token,
                   tokenType |-> selectToken(tokenData, model).tokenType,
                   queued |-> selectBestTokenQueued(queue, model)]
    /\ UNCHANGED <<selVars, now, last, leased, skipHist, dsVars, tokenData, reqVars,
                   cacheVars, sseVars, sideVars>>

GrokNext ==
    \E model \in GrokModelNames : \E queue \in accountQueues(tokenData) :
        GrokSelect(model, queue)

GrokSpec == GrokInit /\ [][GrokNext]_vars

\* ------------------------------------------------------------------------
\* Grok completion requests: grokRequest, the failure records and the
\* rate-limit poll it starts
\* ------------------------------------------------------------------------
\* grok.retry_status_codes, by default
retryCodes == {401, 429}
\* const maxOuterRetry = 3; const max403Retries = 5
maxOuterRetry == 3
max403Retries == 5
\* An optional argument that was not passed.
undefined == -2
\* The statuses the upstream may answer with.
Responses == {200, 400, 401, 403, 429, 500}
\* How a rate-limit poll may end: a recorded failure status, quotas read from
\* the answer, or an exception that the caller swallows.
PollFailures == {403, 429, 500}
PollQuotas == {-1, 0, MaxQuota}

\* The models the completion requests of a run ask for.
ReqModels == {"grok-4-fast"}

hasKey(tokens, sso) == \E i \in 1..Len(tokens) : tokens[i].key = sso

recordOf(tokens, sso) == tokens[CHOOSE i \in 1..Len(tokens) : tokens[i].key = sso]

\* data[type][sso] = record
withRecord(data, type, sso, record) ==
    [data EXCEPT ![type] =
        [i \in 1..Len(@) |-> IF @[i].key = sso THEN record ELSE @[i]]]

\* recordFailure, mutated: any status of 400 or more expires the token.
expiresOnAnyError(status, failedCount) ==
    status >= 400 /\ failedCount >= MAX_FAILURES

\* status >= 400 && status < 500 && record.failedCount >= MAX_FAILURES
expires(status, failedCount) ==
    status >= 400 /\ status < 500 /\ failedCount >= MAX_FAILURES

\* The record after one more failure with the status.
failed(record, status) ==
    [record EXCEPT !.failedCount = @ + 1,
                   !.status = IF expires(status, record.failedCount + 1)
                              THEN "expired" ELSE @]

\* recordFailure(authToken, status, msg): the first map holding the token
recordFailure(data, sso, status) ==
    LET bump(record) == failed(record, status) IN
    IF hasKey(data[NORMAL], sso)
    THEN withRecord(data, NORMAL, sso, bump(recordOf(data[NORMAL], sso)))
    ELSE IF hasKey(data[SUPER], sso)
    THEN withRecord(data, SUPER, sso, bump(recordOf(data[SUPER], sso)))
    ELSE data

\* recordTokenFailure(filename, status, msg) of the account-file variant
recordTokenFailure(account, status) ==
    LET failedCount == account.failedCount + 1 IN
    [account EXCEPT !.failedCount = failedCount,
                    !.status = IF status >= 400 /\ status < 500
                                  /\ failedCount >= MAX_FAILURES
                               THEN "expired" ELSE @]

\* resetFailure, mutated: the count is left as it is.
resetFailureKeeps(data, sso) == data

\* resetFailure(authToken): the first map holding the token with failures
resetFailure(data, sso) ==
    LET clear(record) == [record EXCEPT !.failedCount = 0] IN
    IF hasKey(data[NORMAL], sso) /\ recordOf(data[NORMAL], sso).failedCount > 0
    THEN withRecord(data, NORMAL, sso, clear(recordOf(data[NORMAL], sso)))
    ELSE IF hasKey(data[SUPER], sso) /\ recordOf(data[SUPER], sso).failedCount > 0
    THEN withRecord(data, SUPER, sso, clear(recordOf(data[SUPER], sso)))
    ELSE data

\* updateLimits(sso, model, normal, heavy)
updateLimits(data, sso, normal, heavy) ==
    LET write(record) ==
            [record EXCEPT !.remainingQueries = IF normal # undefined THEN normal ELSE @,
                           !.heavyremainingQueries = IF heavy # undefined THEN heavy ELSE @]
    IN  IF hasKey(data[NORMAL], sso)
        THEN withRecord(data, NORMAL, sso, write(recordOf(data[NORMAL], sso)))
        ELSE IF hasKey(data[SUPER], sso)
        THEN withRecord(data, SUPER, sso, write(recordOf(data[SUPER], sso)))
        ELSE data

\* The stores a run of requests starts from: at most one token per map, the
\* normal one possibly one failure short of the limit.
ReqStores ==
    [ssoNormal : {<<>>}
                 \cup {<<TokenRecord("A", [status |-> "active", failedCount |-> n], -1, -1)>> :
                          n \in {0, MAX_FAILURES - 1}},
     ssoSuper : {<<>>, <<TokenRecord("B", [status |-> "active", failedCount |-> 0], -1, -1)>>}]

GrokReqInit ==
    /\ accountMap = {}
    /\ inUse = [a \in Accounts |-> FALSE]
    /\ order = [m \in Models |-> <<>>]
    /\ cursor = [m \in Models |-> 0]
    /\ skippedUntil = [m \in Models |-> [a \in Accounts |-> 0]]
    /\ now = TickMs
    /\ last = NoCall
    /\ leased = [a \in Accounts |-> 0]
    /\ skipEnd = [m \in Models |-> [a \in Accounts |-> 0]]
    /\ skipMaxEnd = [m \in Models |-> [a \in Accounts |-> 0]]
    /\ s4 = "off"
    /\ DsIdle
    /\ accountEntries = {}
    /\ hasToken = {}
    /\ tokenData \in ReqStores
    /\ grokSel = NoSelection
    /\ ReqIdle
    /\ CacheIdle
    /\ SseIdle
    /\ SideIdle

\* total403 counts the retries after a 403 over the whole request, up to one
\* more than a single run of the inner loop allows.
countTo(n) == IF n > max403Retries + 1 THEN max403Retries + 1 ELSE n

\* outer < maxOuterRetry, mutated: one more round is allowed.
mayRetryOnceMore(outer) == outer <= maxOuterRetry

\* if (outer < maxOuterRetry): the status is retried in the next round
mayRetry(outer) == outer < maxOuterRetry

\* if (retry403 <= max403Retries), after retry403 += 1
mayRetry403(retry403) == retry403 <= max403Retries

notGrokReq == <<selVars, now, last, leased, skipHist, dsVars, grokSel, cacheVars,
               sseVars, sideVars>>

\* grokRequest ends by throwing: the completions endpoint answers 500. The
\* loop counters are gone with the call.
grokThrows(req, how) ==
    [req EXCEPT !.pc = "done", !.outer = 0, !.retry403 = 0, !.result = how, !.http = 500]

\* grokRequest up to its first fetch: selectToken throws when no token
\* qualifies.
GrokBegin(model) ==
    /\ grokReq.pc \in {"idle", "done"}
    /\ Cardinality(polls) < MaxPolls
    /\ LET selection == selectToken(tokenData, model) IN
       grokReq' = IF selection.token = "none"
                  THEN grokThrows([NoRequest EXCEPT !.model = model], "no_token")
                  ELSE [NoRequest EXCEPT !.pc = "fetch", !.model = model,
                                         !.token = selection.token]
    /\ grokLast' = NoWrite
    /\ UNCHANGED <<tokenData, polls, okSince, notGrokReq>>

\* One answer of the completion endpoint and what the retry loops make of it.
GrokResponse(status) ==
    /\ grokReq.pc = "fetch"
    /\ LET token == grokReq.token
           fail(how) ==
               /\ tokenData' = recordFailure(tokenData, token, status)
               /\ grokLast' = [op |-> "recordFailure", token |-> token, status |-> status]
               /\ grokReq' = grokThrows(grokReq, how)
               /\ okSince' = [okSince EXCEPT ![token] = FALSE]
               /\ UNCHANGED polls
           again(req) ==
               /\ grokReq' = req
               /\ grokLast' = [op |-> "retry", token |-> token, status |-> status]
               /\ UNCHANGED <<tokenData, polls, okSince>>
       IN  IF status = 403
           THEN IF mayRetry403(grokReq.retry403 + 1)
                THEN again([grokReq EXCEPT !.retry403 = @ + 1, !.total403 = countTo(@ + 1)])
                ELSE fail("blocked")
           ELSE IF status \in retryCodes
           THEN IF mayRetry(grokReq.outer)
                THEN again([grokReq EXCEPT !.outer = @ + 1, !.retry403 = 0])
                ELSE fail("retries_exhausted")
           ELSE IF status < 200 \/ status > 299
           THEN fail("http_error")
           ELSE /\ tokenData' = resetFailure(tokenData, token)
                /\ grokLast' = [op |-> "resetFailure", token |-> token, status |-> status]
                /\ polls' = polls \cup {<<token, grokReq.model>>}
                /\ grokReq' = [grokReq EXCEPT !.pc = "done", !.outer = 0, !.retry403 = 0,
                                              !.result = "ok", !.http = 200]
                /\ okSince' = [okSince EXCEPT ![token] = TRUE]
    /\ UNCHANGED notGrokReq

\* fetch rejects: the exception leaves grokRequest, nothing is recorded.
GrokFetchThrows ==
    /\ grokReq.pc = "fetch"
    /\ grokReq' = grokThrows(grokReq, "network")
    /\ grokLast' = NoWrite
    /\ okSince' = [okSince EXCEPT ![grokReq.token] = FALSE]
    /\ UNCHANGED <<tokenData, polls, notGrokReq>>

\* requestRateLimit runs the same retry loops and writes once, when it is
\* over: a failure record, or the quota of the model's tier.
GrokPollFails(poll, status) ==
    /\ poll \in polls
    /\ tokenData' = recordFailure(tokenData, poll[1], status)
    /\ grokLast' = [op |-> "recordFailure", token |-> poll[1], status |-> status]
    /\ polls' = polls \ {poll}
    /\ UNCHANGED <<grokReq, okSince, notGrokReq>>

GrokPollAnswers(poll, quota) ==
    /\ poll \in polls
    /\ tokenData' = IF poll[2] = "grok-4-heavy"
                    THEN updateLimits(tokenData, poll[1], undefined, quota)
                    ELSE updateLimits(tokenData, poll[1], quota, undefined)
    /\ grokLast' = [op |-> "updateLimits", token |-> poll[1], status |-> 200]
    /\ polls' = polls \ {poll}
    /\ UNCHANGED <<grokReq, okSince, notGrokReq>>

\* requestRateLimit rejects: .catch(() => null)
GrokPollThrows(poll) ==
    /\ poll \in polls
    /\ polls' = polls \ {poll}
    /\ grokLast' = NoWrite
    /\ UNCHANGED <<tokenData, grokReq, okSince, notGrokReq>>

GrokReqNext ==
    \/ \E model \in ReqModels : GrokBegin(model)
    \/ \E status \in Responses : GrokResponse(status)
    \/ GrokFetchThrows
    \/ \E poll \in polls, status \in PollFailures : GrokPollFails(poll, status)
    \/ \E poll \in polls, quota \in PollQuotas : GrokPollAnswers(poll, quota)
    \/ \E poll \in polls : GrokPollThrows(poll)

GrokReqSpec == GrokReqInit /\ [][GrokReqNext]_vars

\* ------------------------------------------------------------------------
\* The token-file cache (TokenCache) and the code that uses it
\* ------------------------------------------------------------------------
\* The clock advances by a directory-scan interval or by an entry lifetime.
Elapses == {SCAN_INTERVAL, CACHE_TTL}

\* f.endsWith('.json')
endsWithJson(name) == name \in Files

\* Date.now() - cached.timestamp <= CACHE_TTL, mutated: an entry of exactly
\* the lifetime is still served.
freshAtTTL(entry, t) == t - entry.timestamp <= CACHE_TTL

\* Date.now() - cached.timestamp < this.CACHE_TTL
fresh(entry, t) == t - entry.timestamp < CACHE_TTL

\* Date.now() - projectCache.lastScan < this.SCAN_INTERVAL
scanFresh(scan, t) == t - scan < SCAN_INTERVAL

\* readFile followed by JSON.parse: the document, or <<>> if either throws
readToken(content) == IF content.exists THEN content.json ELSE <<>>

\* invalidateToken(project, filename): projectCache.tokens.delete(filename)
invalidateToken(map, filename) == [map EXCEPT ![filename] = <<>>]

\* The rest of the state does not belong to the token cache.
notCache == <<selVars, now, last, leased, skipHist, dsVars, grokVars, sseVars, sideVars>>

\* A write to, or the removal of, a file of the directory: the watcher, if
\* there is one, will report it.
reported(name) == IF watching THEN events \cup {name} ELSE events

\* A management call on the file is no longer the last change to it.
overtaken(name) == IF mgmt.file = name THEN [mgmt EXCEPT !.intact = FALSE] ELSE mgmt

CacheInit ==
    /\ accountMap = {}
    /\ inUse = [a \in Accounts |-> FALSE]
    /\ order = [m \in Models |-> <<>>]
    /\ cursor = [m \in Models |-> 0]
    /\ skippedUntil = [m \in Models |-> [a \in Accounts |-> 0]]
    /\ now = TickMs
    /\ last = NoCall
    /\ leased = [a \in Accounts |-> 0]
    /\ skipEnd = [m \in Models |-> [a \in Accounts |-> 0]]
    /\ skipMaxEnd = [m \in Models |-> [a \in Accounts |-> 0]]
    /\ s4 = "off"
    /\ DsIdle
    /\ accountEntries = {}
    /\ hasToken = {}
    /\ tokenData = [ssoNormal |-> <<>>, ssoSuper |-> <<>>]
    /\ grokSel = NoSelection
    /\ ReqIdle
    /\ disk \in [Names -> Contents]
    /\ disk["notes.txt"] = corrupt
    /\ getProjectCache
    /\ events = {}
    /\ time = StartTime
    /\ elapses = 0
    /\ getOp = "none"
    /\ listOp = FALSE
    /\ held = NoHeld
    /\ ret = NoRet
    /\ listed = NoList
    /\ mgmt = NoMgmt
    /\ changedSince = {}
    /\ SseIdle
    /\ SideIdle

\* getToken(project, filename) up to its first await: a cached entry younger
\* than CACHE_TTL is returned as it is, the object itself; otherwise the file
\* is read.
GetTokenCall(f) ==
    /\ getOp = "none"
    /\ IF cached[f] # <<>> /\ fresh(cached[f][1], time)
       THEN /\ ret' = [file |-> f, data |-> <<cached[f][1].data>>, read |-> FALSE]
            /\ held' = [file |-> f, data |-> <<cached[f][1].data>>]
            /\ getOp' = getOp
       ELSE /\ ret' = NoRet
            /\ held' = held
            /\ getOp' = f
    /\ listed' = NoList
    /\ UNCHANGED <<disk, cached, fileList, lastScan, watching, events, time, elapses,
                   listOp, mgmt, changedSince, notCache>>

\* getToken after readFile: the parsed document is cached with the current
\* time and returned, the same object; if the read or the parse throws, the
\* entry is deleted and null returned.
GetTokenLoad ==
    /\ getOp # "none"
    /\ LET f == getOp
           data == readToken(disk[f])
       IN  /\ cached' = [cached EXCEPT ![f] =
                            IF data # <<>>
                            THEN <<[data |-> data[1], timestamp |-> time]>>
                            ELSE <<>>]
           /\ ret' = [file |-> f, data |-> data, read |-> TRUE]
           /\ held' = [file |-> f, data |-> data]
           /\ changedSince' = changedSince \ {f}
    /\ getOp' = "none"
    /\ listed' = NoList
    /\ UNCHANGED <<disk, fileList, lastScan, watching, events, time, elapses, listOp,
                   mgmt, notCache>>

\* getTokenList(project) up to its first await: a scan younger than
\* SCAN_INTERVAL is answered with a copy of fileList; otherwise the directory
\* is read.
GetTokenListCall ==
    /\ ~listOp
    /\ IF scanFresh(lastScan, time)
       THEN listed' = <<fileList>> /\ listOp' = FALSE
       ELSE listed' = NoList /\ listOp' = TRUE
    /\ ret' = NoRet
    /\ UNCHANGED <<disk, cached, fileList, lastScan, watching, events, time, elapses,
                   getOp, held, mgmt, changedSince, notCache>>

\* getTokenList after readdir: the *.json names become fileList, lastScan the
\* current time, and startWatching installs the watcher unless there is one;
\* fs.watch may throw, and then there is none.
GetTokenListScan(watchOk) ==
    /\ listOp
    /\ LET jsonFiles == {n \in Names : disk[n].exists /\ endsWithJson(n)}
       IN  /\ fileList' = jsonFiles
           /\ listed' = <<jsonFiles>>
    /\ lastScan' = time
    /\ watching' = (watching \/ watchOk)
    /\ listOp' = FALSE
    /\ ret' = NoRet
    /\ UNCHANGED <<disk, cached, events, time, elapses, getOp, held, mgmt,
                   changedSince, notCache>>

\* The callback of fs.watch: for a *.json name, invalidateToken and
\* lastScan = 0.
WatcherFires(name) ==
    /\ name \in events
    /\ events' = events \ {name}
    /\ IF endsWithJson(name)
       THEN cached' = invalidateToken(cached, name) /\ lastScan' = 0
       ELSE UNCHANGED <<cached, lastScan>>
    /\ ret' = NoRet
    /\ listed' = NoList
    /\ UNCHANGED <<disk, fileList, watching, time, elapses, getOp, listOp, held, mgmt,
                   changedSince, notCache>>

\* Something outside the server writes, or removes, a credential file.
FileChange(f, content) ==
    /\ disk[f] # content
    /\ disk' = [disk EXCEPT ![f] = content]
    /\ events' = reported(f)
    /\ changedSince' = changedSince \cup {f}
    /\ mgmt' = overtaken(f)
    /\ ret' = NoRet
    /\ listed' = NoList
    /\ UNCHANGED <<cached, fileList, lastScan, watching, time, elapses, getOp, listOp,
                   held, notCache>>

\* Something outside the server rewrites the file that is not a credential
\* file.
OtherFileChange ==
    /\ watching
    /\ "notes.txt" \notin events
    /\ events' = reported("notes.txt")
    /\ ret' = NoRet
    /\ listed' = NoList
    /\ UNCHANGED <<disk, cached, fileList, lastScan, watching, time, elapses, getOp,
                   listOp, held, mgmt, changedSince, notCache>>

\* updateTokenLimits after getAccount: account.remainingQueries = normal, on
\* the object getToken returned. While the entry of that file is cached, the
\* entry holds this very object: getToken stores and returns one and the same
\* object, and the caller's last result for a file is the latest one stored.
UpdateTokenLimits(normal) ==
    /\ held.data # null
    /\ held.data[1].remainingQueries # normal
    /\ LET account == [held.data[1] EXCEPT !.remainingQueries = normal]
       IN  /\ held' = [held EXCEPT !.data = <<account>>]
           /\ cached' = IF cached[held.file] # <<>>
                        THEN [cached EXCEPT ![held.file] =
                                 <<[data |-> account, timestamp |-> @[1].timestamp]>>]
                        ELSE cached
    /\ ret' = NoRet
    /\ listed' = NoList
    /\ UNCHANGED <<disk, fileList, lastScan, watching, events, time, elapses, getOp,
                   listOp, mgmt, changedSince, notCache>>

\* saveAccount(identifier, data): writeFile, then invalidateToken
SaveAccount ==
    /\ held.data # null
    /\ disk' = [disk EXCEPT ![held.file] = document(held.data[1])]
    /\ cached' = invalidateToken(cached, held.file)
    /\ events' = reported(held.file)
    /\ mgmt' = overtaken(held.file)
    /\ ret' = NoRet
    /\ listed' = NoList
    /\ UNCHANGED <<fileList, lastScan, watching, time, elapses, getOp, listOp, held,
                   changedSince, notCache>>

\* tokens/add up to the end of writeFile
TokensAddWrite(f, data) ==
    /\ mgmt.pc # "written"
    /\ disk' = [disk EXCEPT ![f] = document(data)]
    /\ events' = reported(f)
    /\ mgmt' = [op |-> "add", file |-> f, pc |-> "written", intact |-> TRUE]
    /\ ret' = NoRet
    /\ listed' = NoList
    /\ UNCHANGED <<cached, fileList, lastScan, watching, time, elapses, getOp, listOp,
                   held, changedSince, notCache>>

\* tokens/add after writeFile: tokenCache.invalidateProject(project), which
\* clears tokens, empties fileList and sets lastScan = 0
TokensAddDone ==
    /\ mgmt.op = "add"
    /\ mgmt.pc = "written"
    /\ cached' = [f \in Files |-> <<>>]
    /\ fileList' = {}
    /\ lastScan' = 0
    /\ mgmt' = [mgmt EXCEPT !.pc = "done"]
    /\ ret' = NoRet
    /\ listed' = NoList
    /\ UNCHANGED <<disk, watching, events, time, elapses, getOp, listOp, held,
                   changedSince, notCache>>

\* tokens/delete up to the end of unlink, which throws if there is no file
TokensDeleteUnlink(f) ==
    /\ mgmt.pc # "written"
    /\ disk[f].exists
    /\ disk' = [disk EXCEPT ![f] = missing]
    /\ events' = reported(f)
    /\ mgmt' = [op |-> "delete", file |-> f, pc |-> "written", intact |-> TRUE]
    /\ ret' = NoRet
    /\ listed' = NoList
    /\ UNCHANGED <<cached, fileList, lastScan, watching, time, elapses, getOp, listOp,
                   held, changedSince, notCache>>

\* tokens/delete after unlink: tokenCache.invalidateToken(project, filename)
TokensDeleteDone ==
    /\ mgmt.op = "delete"
    /\ mgmt.pc = "written"
    /\ cached' = invalidateToken(cached, mgmt.file)
    /\ mgmt' = [mgmt EXCEPT !.pc = "done"]
    /\ ret' = NoRet
    /\ listed' = NoList
    /\ UNCHANGED <<disk, fileList, lastScan, watching, events, time, elapses, getOp,
                   listOp, held, changedSince, notCache>>

\* Time passes.
CacheTick(d) ==
    /\ elapses < MaxElapses
    /\ time' = time + d
    /\ elapses' = elapses + 1
    /\ ret' = NoRet
    /\ listed' = NoList
    /\ UNCHANGED <<disk, cached, fileList, lastScan, watching, events, getOp, listOp,
                   held, mgmt, changedSince, notCache>>

CacheNext ==
    \/ \E f \in Files : GetTokenCall(f)
    \/ GetTokenLoad
    \/ GetTokenListCall
    \/ \E watchOk \in BOOLEAN : GetTokenListScan(watchOk)
    \/ \E name \in Names : WatcherFires(name)
    \/ \E f \in Files, content \in Contents : FileChange(f, content)
    \/ OtherFileChange
    \/ \E normal \in {0, MaxQuota} : UpdateTokenLimits(normal)
    \/ SaveAccount
    \/ \E f \in Files, data \in Documents : TokensAddWrite(f, data)
    \/ TokensAddDone
    \/ \E f \in Files : TokensDeleteUnlink(f)
    \/ TokensDeleteDone
    \/ \E d \in Elapses : CacheTick(d)

CacheSpec == CacheInit /\ [][CacheNext]_vars

\* ------------------------------------------------------------------------
\* getToken with its read in flight
\* ------------------------------------------------------------------------
\* Here the await of readFile is two steps: the file is read, and later the
\* promise resolves and getToken goes on. Between the two, other callbacks
\* run: writes to the file, the watcher, invalidateToken.
notRace == <<selVars, now, last, leased, skipHist, dsVars, grokVars, sseVars,
            agg, configKeys, call, proxyVars, mediaVars, selOp, policy, fetching, acct, svc, grokStream, img>>

\* readFile has read the file of the getToken that is waiting.
RaceRead ==
    /\ getOp # "none"
    /\ race.read = <<>>
    /\ race' = [race EXCEPT !.read = <<disk[getOp]>>, !.invalidated = FALSE]
    /\ ret' = NoRet
    /\ listed' = NoList
    /\ UNCHANGED <<disk, cached, fileList, lastScan, watching, events, time, elapses,
                   getOp, listOp, held, mgmt, changedSince, notRace>>

\* getToken goes on after readFile: what was read is parsed, cached with the
\* current time and returned; if the read or the parse threw, the entry is
\* deleted and null returned.
RaceInstall ==
    /\ getOp # "none"
    /\ race.read # <<>>
    /\ LET f == getOp
           data == readToken(race.read[1])
       IN  /\ cached' = [cached EXCEPT ![f] =
                            IF data # <<>>
                            THEN <<[data |-> data[1], timestamp |-> time]>>
                            ELSE <<>>]
           /\ ret' = [file |-> f, data |-> data, read |-> TRUE]
           /\ held' = [file |-> f, data |-> data]
    /\ race' = [race EXCEPT !.read = <<>>, !.raced = race.invalidated]
    /\ getOp' = "none"
    /\ listed' = NoList
    /\ UNCHANGED <<disk, fileList, lastScan, watching, events, time, elapses, listOp,
                   mgmt, changedSince, notRace>>

\* A write to the file: writeFile of saveAccount or of tokens/add, or a write
\* from outside the server
RaceWrite(f, content) ==
    /\ disk[f] # content
    /\ disk' = [disk EXCEPT ![f] = content]
    /\ race' = [race EXCEPT !.changedAfter = TRUE]
    /\ ret' = NoRet
    /\ listed' = NoList
    /\ UNCHANGED <<cached, fileList, lastScan, watching, events, time, elapses, getOp,
                   listOp, held, mgmt, changedSince, notRace>>

\* invalidateToken(project, filename), called by saveAccount after its
\* writeFile, by tokens/delete, and by the callback of the watcher
RaceInvalidate(f) ==
    /\ cached' = invalidateToken(cached, f)
    /\ race' = [race EXCEPT !.invalidated = (getOp = f /\ race.read # <<>>) \/ @,
                            !.raced = FALSE,
                            !.changedAfter = FALSE]
    /\ ret' = NoRet
    /\ listed' = NoList
    /\ UNCHANGED <<disk, fileList, lastScan, watching, events, time, elapses, getOp,
                   listOp, held, mgmt, changedSince, notRace>>

\* getToken up to its first await, as in the cache above
RaceGetToken(f) ==
    /\ race.read = <<>>
    /\ GetTokenCall(f)

RaceTick(d) ==
    /\ CacheTick(d)

RaceNext ==
    \/ \E f \in Files : RaceGetToken(f)
    \/ RaceRead
    \/ RaceInstall
    \/ \E f \in Files, content \in Contents : RaceWrite(f, content)
    \/ \E f \in Files : RaceInvalidate(f)
    \/ \E d \in Elapses : RaceTick(d)

RaceSpec == CacheInit /\ [][RaceNext]_vars

\* ------------------------------------------------------------------------
\* The DeepSeek response stream, translated to OpenAI SSE
\* ------------------------------------------------------------------------
\* The two translators: DeepSeekHandler of utils/projects/deepseek, and the
\* chat completions endpoint over the registered DeepSeek project handler.
Translators == {"DeepSeekHandler", "completions.post"}
SseModels == {"deepseek-chat", "deepseek-reasoner", "deepseek-chat-search",
              "deepseek-reasoner-search"}

\* normalized.includes('reasoner') || normalized.includes('reasoning'); the
\* endpoint's handler sets thinking_enabled for the same two models.
isReasoningModel(model) == model \in {"deepseek-reasoner", "deepseek-reasoner-search"}

\* The data lines of the upstream stream: a content string, a thinking_content
\* string, a search_status event, a status array without and with FINISHED,
\* an event whose v is empty or missing, and data: [DONE].
UpstreamLines == {"content", "thinking", "search_status", "status", "finished",
                  "empty", "done"}

\* The frames of the output stream
deltaFrame(role, field) == [kind |-> "delta", role |-> role, field |-> field]
finishFrame == [kind |-> "finish", role |-> FALSE, field |-> "none"]
doneFrame == [kind |-> "done", role |-> FALSE, field |-> "none"]
keepAliveFrame == [kind |-> "keep-alive", role |-> FALSE, field |-> "none"]

notSse == <<selVars, now, last, leased, skipHist, dsVars, grokVars, cacheVars,
           sideVars>>

SseInit ==
    /\ accountMap = {}
    /\ inUse = [a \in Accounts |-> FALSE]
    /\ order = [m \in Models |-> <<>>]
    /\ cursor = [m \in Models |-> 0]
    /\ skippedUntil = [m \in Models |-> [a \in Accounts |-> 0]]
    /\ now = TickMs
    /\ last = NoCall
    /\ leased = [a \in Accounts |-> 0]
    /\ skipEnd = [m \in Models |-> [a \in Accounts |-> 0]]
    /\ skipMaxEnd = [m \in Models |-> [a \in Accounts |-> 0]]
    /\ s4 = "off"
    /\ DsIdle
    /\ accountEntries = {}
    /\ hasToken = {}
    /\ GrokIdle

\* The completion request was answered: the output stream is created, with
\* firstChunkSent = false, finished = false, and in DeepSeekHandler the
\* keep-alive timer set.
SseStart(via, model) ==
    /\ sse.pc = "idle"
    /\ sse' = [NoStream EXCEPT !.via = via, !.model = model, !.pc = "reading",
                               !.timer = (via = "DeepSeekHandler")]
    /\ out' = <<>>
    /\ UNCHANGED notSse

\* finish() of DeepSeekHandler up to its first await: finished = true,
\* clearInterval(keepAliveTimer)
startFinish(how) ==
    [sse EXCEPT !.pc = "finishing", !.finished = TRUE, !.timer = FALSE,
                !.upstream = how, !.lines = @ + 1]

\* One data line in the read loop of DeepSeekHandler. firstChunkSent is set
\* before a thinking_content event of a model without reasoning is skipped.
HandlerLine(line) ==
    /\ sse.via = "DeepSeekHandler"
    /\ sse.pc = "reading"
    /\ sse.lines < MaxLines
    /\ CASE line \in {"done", "finished"} ->
              /\ sse' = startFinish(line)
              /\ out' = out
         [] line \in {"search_status", "status", "empty"} ->
              /\ sse' = [sse EXCEPT !.lines = @ + 1]
              /\ out' = out
         [] line = "thinking" ->
              /\ sse' = [sse EXCEPT !.lines = @ + 1, !.firstChunkSent = TRUE]
              /\ out' = IF isReasoningModel(sse.model)
                        THEN Append(out, deltaFrame(~sse.firstChunkSent, "reasoning_content"))
                        ELSE out
         [] line = "content" ->
              /\ sse' = [sse EXCEPT !.lines = @ + 1, !.firstChunkSent = TRUE]
              /\ out' = Append(out, deltaFrame(~sse.firstChunkSent, "content"))
    /\ UNCHANGED notSse

\* reader.read() of DeepSeekHandler returns done: finish()
HandlerEof ==
    /\ sse.via = "DeepSeekHandler"
    /\ sse.pc = "reading"
    /\ sse' = startFinish("eof")
    /\ out' = out
    /\ UNCHANGED notSse

\* finish() after countTokens: the final chunk with finish_reason 'stop',
\* data: [DONE], controller.close()
HandlerFinish ==
    /\ sse.pc = "finishing"
    /\ out' = out \o <<finishFrame, doneFrame>>
    /\ sse' = [sse EXCEPT !.pc = "closed"]
    /\ UNCHANGED notSse

\* reader.read() of DeepSeekHandler throws: clearInterval, controller.error
HandlerReadError ==
    /\ sse.via = "DeepSeekHandler"
    /\ sse.pc = "reading"
    /\ sse' = [sse EXCEPT !.pc = "errored", !.timer = FALSE, !.upstream = "error"]
    /\ out' = out
    /\ UNCHANGED notSse

\* The keep-alive interval fires: if (!finished) enqueue ': keep-alive'
KeepAlive ==
    /\ sse.timer
    /\ sse.lines < MaxLines
    /\ sse' = [sse EXCEPT !.lines = @ + 1]
    /\ out' = IF ~sse.finished THEN Append(out, keepAliveFrame) ELSE out
    /\ UNCHANGED notSse

\* One data line in the read loop of the endpoint. data: [DONE] breaks out of
\* the loop over the lines of the current read only; the lines after it in the
\* same read are dropped, and the next read goes on. Every string that is not
\* thinking_content counts as text. A delta that holds only the role is
\* written too.
EndpointLine(line) ==
    /\ sse.via = "completions.post"
    /\ sse.pc = "reading"
    /\ sse.lines < MaxLines
    /\ IF sse.dropping
       THEN /\ sse' = [sse EXCEPT !.lines = @ + 1]
            /\ out' = out
       ELSE CASE line = "done" ->
                   /\ sse' = [sse EXCEPT !.lines = @ + 1, !.dropping = TRUE,
                                         !.upstream = "done"]
                   /\ out' = out
              [] line \in {"empty", "status"} ->
                   /\ sse' = [sse EXCEPT !.lines = @ + 1]
                   /\ out' = out
              [] line = "finished" ->
                   /\ sse' = [sse EXCEPT !.lines = @ + 1, !.pc = "closed",
                                         !.upstream = "finished"]
                   /\ out' = out \o <<finishFrame, doneFrame>>
              [] line = "thinking" ->
                   /\ sse' = [sse EXCEPT !.lines = @ + 1, !.firstChunkSent = TRUE]
                   /\ out' = IF isReasoningModel(sse.model)
                             THEN Append(out, deltaFrame(~sse.firstChunkSent,
                                                         "reasoning_content"))
                             ELSE IF ~sse.firstChunkSent
                                  THEN Append(out, deltaFrame(TRUE, "none"))
                                  ELSE out
              [] line \in {"content", "search_status"} ->
                   /\ sse' = [sse EXCEPT !.lines = @ + 1, !.firstChunkSent = TRUE]
                   /\ out' = Append(out, deltaFrame(~sse.firstChunkSent, "content"))
    /\ UNCHANGED notSse

\* The next reader.read() of the endpoint returns a chunk.
EndpointNextRead ==
    /\ sse.via = "completions.post"
    /\ sse.pc = "reading"
    /\ sse.dropping
    /\ sse' = [sse EXCEPT !.dropping = FALSE]
    /\ out' = out
    /\ UNCHANGED notSse

\* reader.read() of the endpoint returns done, or throws, which is caught and
\* logged: finally controller.close()
EndpointEnds(how) ==
    /\ sse.via = "completions.post"
    /\ sse.pc = "reading"
    /\ sse' = [sse EXCEPT !.pc = "closed",
                          !.upstream = IF how = "eof" /\ @ = "done" THEN @ ELSE how]
    /\ out' = out
    /\ UNCHANGED notSse

SseNext ==
    \/ \E via \in Translators, model \in SseModels : SseStart(via, model)
    \/ \E line \in UpstreamLines : HandlerLine(line)
    \/ HandlerEof
    \/ HandlerFinish
    \/ HandlerReadError
    \/ KeepAlive
    \/ \E line \in UpstreamLines : EndpointLine(line)
    \/ EndpointNextRead
    \/ \E how \in {"eof", "error"} : EndpointEnds(how)

SseSpec == SseInit /\ [][SseNext]_vars

\* ------------------------------------------------------------------------
\* Aggregation of an OpenAI SSE stream into one completion
\* ------------------------------------------------------------------------
\* The text of a stream is a sequence of pieces: "NL" is the newline, "x" and
\* "y" are characters of a string value, and the other pieces are the parts
\* of a line that the code tells apart: the data: prefix, the start of a chunk
\* with a content delta ("{c") or a reasoning_content delta ("{r") and its end
\* ("}"), a chunk whose delta holds only the role, the final chunk with
\* finish_reason, [DONE], text that is not JSON, and a comment line. A read may
\* end between any two pieces.
Strings == {<<"x">>, <<"x", "y">>}
FrameKinds == {"content", "reasoning_content", "role", "stop", "done", "bad",
               "keep-alive"}
Frames == [kind : {"content", "reasoning_content"}, value : Strings]
              \cup [kind : FrameKinds \ {"content", "reasoning_content"}, value : {<<>>}]

\* The line of a frame, and the frame as it is written: `line\n\n`
lineOf(frame) ==
    CASE frame.kind = "content" -> <<"data:", "{c">> \o frame.value \o <<"}">>
      [] frame.kind = "reasoning_content" -> <<"data:", "{r">> \o frame.value \o <<"}">>
      [] frame.kind = "role" -> <<"data:", "{role}">>
      [] frame.kind = "stop" -> <<"data:", "{stop}">>
      [] frame.kind = "done" -> <<"data:", "[DONE]">>
      [] frame.kind = "bad" -> <<"data:", "{oops">>
      [] frame.kind = "keep-alive" -> <<":keep-alive">>
written(frame) == lineOf(frame) \o <<"NL", "NL">>

RECURSIVE streamOf(_)
streamOf(frames) ==
    IF frames = <<>> THEN <<>> ELSE written(Head(frames)) \o streamOf(Tail(frames))

\* The streams of up to MaxFrames frames
RECURSIVE FrameLists(_)
FrameLists(n) ==
    IF n = 0 THEN {<<>>}
    ELSE FrameLists(n - 1) \cup
         {Append(frames, frame) : frames \in {l \in FrameLists(n - 1) : Len(l) = n - 1},
                                  frame \in Frames}

\* The delta.content strings, and the delta.reasoning_content strings, of the
\* frames, concatenated in order
RECURSIVE deltasOf(_, _)
deltasOf(frames, field) ==
    IF frames = <<>> THEN <<>>
    ELSE (IF Head(frames).kind = field THEN Head(frames).value ELSE <<>>)
             \o deltasOf(Tail(frames), field)

\* buffer.split('\n'): the pieces between the newlines; the last element is
\* what follows the last newline
RECURSIVE split(_)
split(text) ==
    IF \A i \in 1..Len(text) : text[i] # "NL" THEN <<text>>
    ELSE LET i == CHOOSE k \in 1..Len(text) :
                      text[k] = "NL" /\ \A j \in 1..(k - 1) : text[j] # "NL"
         IN  <<SubSeq(text, 1, i - 1)>> \o split(SubSeq(text, i + 1, Len(text)))

\* buffer = lines.pop(), mutated: the unfinished line is thrown away
popNothing(lines) == <<>>

\* buffer = lines.pop() ?? ''
pop(lines) == lines[Len(lines)]

\* JSON.parse(data), and the delta of its first choice: the field the delta
\* holds with its string, or no field. Text that is not JSON, a chunk without
\* a content or reasoning_content string, a comment line, a line without
\* data:, an empty line and [DONE] add nothing.
deltaOf(line) ==
    IF Len(line) >= 3 /\ line[1] = "data:" /\ line[2] \in {"{c", "{r"}
       /\ line[Len(line)] = "}"
       /\ \A i \in 3..(Len(line) - 1) : line[i] \in {"x", "y"}
    THEN [field |-> IF line[2] = "{c" THEN "content" ELSE "reasoning_content",
          value |-> SubSeq(line, 3, Len(line) - 1)]
    ELSE [field |-> "none", value |-> <<>>]

\* content += delta.content and reasoningContent += delta.reasoning_content
\* over the lines, in order
RECURSIVE accumulate(_, _, _)
accumulate(acc, lines, field) ==
    IF lines = <<>> THEN acc
    ELSE accumulate(IF deltaOf(Head(lines)).field = field
                    THEN acc \o deltaOf(Head(lines)).value ELSE acc,
                    Tail(lines), field)

notAgg == <<selVars, now, last, leased, skipHist, dsVars, grokVars, cacheVars, sseVars,
           configKeys, call, proxyVars, mediaVars, selOp, lateVars>>

AggInit == SseInit

\* aggregateSseToOpenAICompletion(middleContent, sseResponse) up to the first
\* read, on the stream of the frames
AggStart(frames) ==
    /\ agg.pc \in {"idle", "done"}
    /\ agg' = [NoAggregation EXCEPT !.pc = "reading", !.rest = streamOf(frames),
                                    !.deltaContent = deltasOf(frames, "content"),
                                    !.deltaReasoning = deltasOf(frames, "reasoning_content")]
    /\ UNCHANGED notAgg

\* reader.read() returns the next n pieces: they are appended to the buffer,
\* the complete lines are handled and the rest stays in the buffer.
AggRead(n) ==
    /\ agg.pc = "reading"
    /\ n \in 1..Len(agg.rest)
    /\ LET lines == split(agg.buffer \o SubSeq(agg.rest, 1, n))
           whole == SubSeq(lines, 1, Len(lines) - 1)
       IN  agg' = [agg EXCEPT
                     !.rest = SubSeq(agg.rest, n + 1, Len(agg.rest)),
                     !.buffer = pop(lines),
                     !.content = accumulate(@, whole, "content"),
                     !.reasoningContent = accumulate(@, whole, "reasoning_content"),
                     !.cut = @ \/ (n < Len(agg.rest) /\ agg.rest[n] # "NL"
                                      /\ agg.rest[n + 1] # "NL")]
    /\ UNCHANGED notAgg

\* reader.read() returns done: the completion is assembled; reasoning_content
\* is left out when it is empty.
AggDone ==
    /\ agg.pc = "reading"
    /\ agg.rest = <<>>
    /\ agg' = [agg EXCEPT !.pc = "done",
                          !.completion =
                              <<[content |-> agg.content,
                                 reasoning_content |->
                                     IF agg.reasoningContent # <<>>
                                     THEN <<agg.reasoningContent>> ELSE <<>>]>>]
    /\ UNCHANGED notAgg

AggNext ==
    \/ \E frames \in FrameLists(MaxFrames) : AggStart(frames)
    \/ \E n \in 1..(5 * MaxFrames + 2) : AggRead(n)
    \/ AggDone

AggSpec == AggInit /\ [][AggNext]_vars

\* ------------------------------------------------------------------------
\* Caller authentication of the chat completions entry points
\* ------------------------------------------------------------------------
\* The keys a configuration may list and a caller may present; "zz" is never
\* configured. A header has the Bearer scheme or none, and its key may be
\* preceded by one more blank.
KnownKeys == {"k1", "k2"}
CallerKeys == KnownKeys \cup {"zz", ""}
Families == {"deepseek", "grok", "unregistered"}

\* A key as the header carries it: the text, and whether a blank precedes it
keyText(key, padded) == [text |-> key, blank |-> padded /\ key # ""]

\* authHeader.substring(7).trim()
trim(text) == [text EXCEPT !.blank = FALSE]

\* CheckApiKey(apiKey): the key is one of config.keys
CheckApiKey(apiKey) == ~apiKey.blank /\ apiKey.text \in configKeys

notCall == <<selVars, now, last, leased, skipHist, dsVars, grokVars, cacheVars, sseVars,
            agg, proxyVars, mediaVars, selOp, lateVars>>

CallInit ==
    /\ accountMap = {}
    /\ inUse = [a \in Accounts |-> FALSE]
    /\ order = [m \in Models |-> <<>>]
    /\ cursor = [m \in Models |-> 0]
    /\ skippedUntil = [m \in Models |-> [a \in Accounts |-> 0]]
    /\ now = TickMs
    /\ last = NoCall
    /\ leased = [a \in Accounts |-> 0]
    /\ skipEnd = [m \in Models |-> [a \in Accounts |-> 0]]
    /\ skipMaxEnd = [m \in Models |-> [a \in Accounts |-> 0]]
    /\ s4 = "off"
    /\ DsIdle
    /\ accountEntries = {}
    /\ hasToken = {}
    /\ tokenData = [ssoNormal |-> <<>>, ssoSuper |-> <<>>]
    /\ grokSel = NoSelection
    /\ ReqIdle
    /\ CacheIdle
    /\ SseIdle
    /\ agg = NoAggregation
    /\ configKeys \in SUBSET KnownKeys
    /\ call = NoCompletionCall
    /\ ProxyIdle
    /\ MediaIdle
    /\ selOp = NoSelectorCall
    /\ LateIdle

\* The request as it arrives at an entry point
arrived(via, scheme, key, padded, family, bodyOk) ==
    [NoCompletionCall EXCEPT !.via = via, !.scheme = scheme, !.key = key,
                             !.padded = padded /\ key # "", !.family = family,
                             !.bodyOk = bodyOk]

\* The request is answered with the status, without a provider adapter.
answered(req, status) == [req EXCEPT !.pc = "done", !.status = status]

\* routes/v1/chat/completions: the header without 'Bearer ', if it starts
\* with it, must pass CheckApiKey, or the answer is 401; then the request is
\* dispatched to the provider handler of the model, 400 if there is none.
RouteRequest(scheme, key, padded, family) ==
    /\ call.pc \in {"idle", "done"}
    /\ LET req == arrived("routes/v1/chat/completions", scheme, key, padded, family, TRUE)
           apiKey == keyText(req.key, req.padded)
       IN  call' = IF ~CheckApiKey(apiKey) THEN answered(req, 401)
                   ELSE IF family = "unregistered" THEN answered(req, 400)
                   ELSE [req EXCEPT !.pc = "adapter", !.authToken = req.key]
    /\ UNCHANGED <<configKeys, notCall>>

\* api/v1/chat/completions: a header that does not start with 'Bearer ' is
\* answered 401; the rest of the header, trimmed, is the authToken, whatever
\* it is. A body without model or messages is answered 400, a model without
\* handler 503; then handler.handleRequest({authToken, body}).
EndpointRequest(scheme, key, padded, family, bodyOk) ==
    /\ call.pc \in {"idle", "done"}
    /\ LET req == arrived("api/v1/chat/completions", scheme, key, padded, family, bodyOk)
           authToken == trim(keyText(req.key, req.padded)).text
       IN  call' = IF scheme # "Bearer" THEN answered(req, 401)
                   ELSE IF ~bodyOk THEN answered(req, 400)
                   ELSE IF family = "unregistered" THEN answered(req, 503)
                   ELSE [req EXCEPT !.pc = "adapter", !.authToken = authToken]
    /\ UNCHANGED <<configKeys, notCall>>

\* The provider adapter runs and calls upstream. Behind the route it uses a
\* credential of the pool. Behind the endpoint, handleDeepSeekRequest uses a
\* credential of the pool if configKeys.includes(authToken) and otherwise the
\* authToken itself as the DeepSeek token; handleGrokRequest does not look at
\* the authToken and uses a token of the store.
AdapterCall(ok) ==
    /\ call.pc = "adapter"
    /\ call' = [call EXCEPT
                  !.pc = "done",
                  !.status = IF ok THEN 200 ELSE 500,
                  !.upstream = IF call.via = "api/v1/chat/completions"
                                  /\ call.family = "deepseek"
                                  /\ call.authToken \notin configKeys
                               THEN "caller" ELSE "pool"]
    /\ UNCHANGED <<configKeys, notCall>>

CallNext ==
    \/ \E scheme \in {"Bearer", "none"}, key \in CallerKeys, padded \in BOOLEAN,
          family \in Families :
          RouteRequest(scheme, key, padded, family)
    \/ \E scheme \in {"Bearer", "none"}, key \in CallerKeys, padded \in BOOLEAN,
          family \in Families, bodyOk \in BOOLEAN :
          EndpointRequest(scheme, key, padded, family, bodyOk)
    \/ \E ok \in BOOLEAN : AdapterCall(ok)

CallSpec == CallInit /\ [][CallNext]_vars

\* ------------------------------------------------------------------------
\* Grok proxy pool
\* ------------------------------------------------------------------------
\* The clock advances by the pause of the 403 retry loop, this many times.
MaxProxyTicks == 3
\* await new Promise(resolve => setTimeout(resolve, 500))
PauseMs == 500

\* The configuration values tried. An interval of 0 asks for a fetch at every
\* lookup, an interval of 1 second is two pauses of the retry loop.
ProxyUrls == {EmptyString, Url("socks5", "s")}
PoolUrls == {EmptyString, Url("http", "pool"), Url("sock5", "q"),
             [Url("socks5h", "q") EXCEPT !.blank = TRUE]}
PoolIntervals == {0, 1}

\* What the pool answers to a GET: the fetch throws, the status is not 2xx,
\* or a body
Bodies == {Url("sock5", "p1"), [Url("http", "p2") EXCEPT !.blank = TRUE],
           Url("ftp", "p1"), EmptyString}
PoolResponses == {[kind |-> "throws"], [kind |-> "status"]}
             \cup {[kind |-> "ok", text |-> b] : b \in Bodies}

\* String.prototype.trim
trimUrl(url) == [url EXCEPT !.blank = FALSE]

normalizeProxy(proxy) ==
    LET value == trimUrl(proxy)
        v1 == IF value.scheme = "sock5h" THEN [value EXCEPT !.scheme = "socks5h"] ELSE value
        v2 == IF v1.scheme = "sock5" THEN [v1 EXCEPT !.scheme = "socks5"] ELSE v1
    IN  IF v2.scheme = "socks5" THEN [v2 EXCEPT !.scheme = "socks5h"] ELSE v2

looksLikeNothing(url) == FALSE

looksLikeProxyUrl(url) ==
    ~url.blank /\ url.scheme \in {"sock5", "sock5h", "socks5", "socks5h"}

validateAnything(proxy) == TRUE

validateProxy(proxy) ==
    /\ proxy # EmptyString
    /\ ~proxy.blank
    /\ proxy.scheme \in {"http", "https", "socks5", "socks5h"}

\* if (!currentProxy) currentProxy = staticProxy
keepOrStatic(p) ==
    IF p.currentProxy = null THEN [p EXCEPT !.currentProxy = p.staticProxy] ELSE p

\* fetchProxy that leaves lastFetchTime alone
fetchProxyUnstamped(p, resp, t) ==
    IF p.poolUrl = null THEN p
    ELSE IF resp.kind = "ok" /\ validateProxy(normalizeProxy(trimUrl(resp.text)))
    THEN [p EXCEPT !.currentProxy = <<normalizeProxy(trimUrl(resp.text))>>]
    ELSE keepOrStatic(p)

\* fetchProxy with the answer of the pool, at time t (ms)
fetchProxy(p, resp, t) ==
    IF p.poolUrl = null THEN p
    ELSE IF resp.kind \in {"throws", "status"} THEN keepOrStatic(p)
    ELSE LET normalized == normalizeProxy(trimUrl(resp.text))
         IN  IF validateProxy(normalized)
             THEN [p EXCEPT !.currentProxy = <<normalized>>, !.lastFetchTime = t]
             ELSE keepOrStatic(p)

\* A lookup that fetches only after more than the interval
dueLater(p, t) == p.currentProxy = null \/ t - p.lastFetchTime > p.fetchInterval * 1000

\* getGrokProxy: !currentProxy || now - lastFetchTime >= fetchInterval, with
\* the times in ms here and in seconds there
due(p, t) == p.currentProxy = null \/ t - p.lastFetchTime >= p.fetchInterval * 1000

\* currentProxy || staticProxy
orStatic(p) == IF p.currentProxy # null THEN p.currentProxy ELSE p.staticProxy

\* A request goes to the pool URL iff fetchProxy runs with a pool URL.
contacts(p) == p.poolUrl # null

\* The pool is asked and answers with a string that passes validateProxy.
obtains(p, resp) ==
    /\ contacts(p)
    /\ resp.kind = "ok"
    /\ validateProxy(normalizeProxy(trimUrl(resp.text)))

afterFetch(p, resp, who) ==
    IF contacts(p)
    THEN [proxyHist EXCEPT !.fetchedAt = <<now>>, !.fetcher = who,
                           !.installedAt = IF obtains(p, resp) THEN <<now>> ELSE @]
    ELSE proxyHist

notProxy == <<selVars, last, leased, skipHist, dsVars, grokVars, cacheVars, sseVars,
             agg, configKeys, call, mediaVars, selOp, lateVars>>

ProxyInit ==
    /\ accountMap = {}
    /\ inUse = [a \in Accounts |-> FALSE]
    /\ order = [m \in Models |-> <<>>]
    /\ cursor = [m \in Models |-> 0]
    /\ skippedUntil = [m \in Models |-> [a \in Accounts |-> 0]]
    /\ now = StartTime
    /\ last = NoCall
    /\ leased = [a \in Accounts |-> 0]
    /\ skipEnd = [m \in Models |-> [a \in Accounts |-> 0]]
    /\ skipMaxEnd = [m \in Models |-> [a \in Accounts |-> 0]]
    /\ s4 = "off"
    /\ DsIdle
    /\ accountEntries = {}
    /\ hasToken = {}
    /\ tokenData = [ssoNormal |-> <<>>, ssoSuper |-> <<>>]
    /\ grokSel = NoSelection
    /\ ReqIdle
    /\ CacheIdle
    /\ SseIdle
    /\ SideIdle

\* configureGrokProxyPool, called once by the Grok plugin before the project
\* is registered
ConfigureGrokProxyPool(proxyUrl, proxyPoolUrl, poolInterval) ==
    /\ ~proxyHist.configured
    /\ LET static0 == IF proxyUrl # EmptyString THEN <<normalizeProxy(proxyUrl)>> ELSE null
           pool0 == IF proxyPoolUrl # EmptyString THEN <<trimUrl(proxyPoolUrl)>> ELSE null
           like == pool0 # null /\ looksLikeProxyUrl(pool0[1])
           static1 == IF like /\ static0 = null THEN <<normalizeProxy(pool0[1])>> ELSE static0
           pool1 == IF like THEN null ELSE pool0
           on == pool1 # null
       IN  proxyPool' = [proxyPool EXCEPT
                           !.staticProxy = static1,
                           !.poolUrl = pool1,
                           !.fetchInterval = poolInterval,
                           !.enabled = on,
                           !.currentProxy = IF ~on /\ static1 # null THEN static1 ELSE @]
    /\ proxyOp' = [NoProxyOp EXCEPT !.op = "configureGrokProxyPool", !.flip = ~proxyOp.flip]
    /\ proxyHist' = [proxyHist EXCEPT !.configured = TRUE, !.proxy_url = proxyUrl,
                                      !.proxy_pool_url = proxyPoolUrl]
    /\ UNCHANGED <<now, retrying, notProxy>>

\* The pool after getGrokProxy by the caller, and what it did
lookup(resp, who) ==
    LET fetches == proxyPool.enabled /\ due(proxyPool, now)
        p == IF fetches THEN fetchProxy(proxyPool, resp, now) ELSE proxyPool
    IN  /\ proxyPool' = p
        /\ proxyOp' = [op |-> "getGrokProxy", caller |-> who,
                       fetched |-> fetches /\ contacts(proxyPool),
                       resp |-> IF fetches /\ contacts(proxyPool) THEN resp
                                ELSE NoPoolResponse,
                       returned |-> IF proxyPool.enabled THEN orStatic(p) ELSE p.staticProxy,
                       flip |-> ~proxyOp.flip]
        /\ proxyHist' = [(IF fetches THEN afterFetch(proxyPool, resp, who) ELSE proxyHist)
                            EXCEPT !.lookedUp = TRUE]

\* The pool after forceRefreshGrokProxy by the caller, and what it did
refresh(resp, who) ==
    LET p == IF proxyPool.enabled THEN fetchProxy(proxyPool, resp, now) ELSE proxyPool
    IN  /\ proxyPool' = p
        /\ proxyOp' = [op |-> "forceRefreshGrokProxy", caller |-> who,
                       fetched |-> proxyPool.enabled /\ contacts(proxyPool),
                       resp |-> IF proxyPool.enabled /\ contacts(proxyPool) THEN resp
                                ELSE NoPoolResponse,
                       returned |-> IF proxyPool.enabled THEN orStatic(p) ELSE p.staticProxy,
                       flip |-> ~proxyOp.flip]
        /\ proxyHist' = IF proxyPool.enabled THEN afterFetch(proxyPool, resp, who)
                        ELSE proxyHist

\* getGrokProxy by another caller: the token refresh service, a media
\* download, another request
GetGrokProxy(resp) ==
    /\ proxyHist.configured
    /\ lookup(resp, "other")
    /\ UNCHANGED <<now, retrying, notProxy>>

\* forceRefreshGrokProxy by another caller, after a 403 to an attempt of its
\* own
ForceRefreshGrokProxy(resp) ==
    /\ proxyHist.configured
    /\ proxyHist.lookedUp
    /\ refresh(resp, "other")
    /\ UNCHANGED <<now, retrying, notProxy>>

\* grokRequest: the lookup at the head of the 403 loop, once the pause after
\* a refresh is over
AttemptLookup(resp) ==
    /\ proxyHist.configured
    /\ \/ retrying.pc = "idle"
       \/ retrying.pc = "pause" /\ now >= retrying.wake
    /\ lookup(resp, "grokRequest")
    /\ retrying' = [retrying EXCEPT !.pc = "fetch", !.proxy = proxyOp'.returned]
    /\ UNCHANGED <<now, notProxy>>

\* grokRequest: the answer of the upstream to the attempt. A 403 counts and,
\* up to max403Retries, goes on to refresh; any other answer leaves the loop.
AttemptResponse(status) ==
    /\ retrying.pc = "fetch"
    /\ retrying' = IF status = 403 /\ retrying.retry403 + 1 <= max403Retries
                   THEN [retrying EXCEPT !.pc = "refresh", !.retry403 = @ + 1,
                                         !.refreshed = null]
                   ELSE NoRetrying
    /\ UNCHANGED <<now, proxyPool, proxyOp, proxyHist, notProxy>>

\* grokRequest: forceRefreshGrokProxy after the 403, then the pause begins
AttemptRefresh(resp) ==
    /\ retrying.pc = "refresh"
    /\ refresh(resp, "grokRequest")
    /\ retrying' = [retrying EXCEPT
                      !.pc = "pause",
                      !.refreshed = IF proxyPool.enabled /\ obtains(proxyPool, resp)
                                    THEN proxyOp'.returned ELSE null,
                      !.wake = now + PauseMs]
    /\ UNCHANGED <<now, notProxy>>

\* Time passes.
ProxyTick ==
    /\ now < StartTime + MaxProxyTicks * PauseMs
    /\ now' = now + PauseMs
    /\ UNCHANGED <<proxyVars, notProxy>>

ProxyNext ==
    \/ \E u \in ProxyUrls, pu \in PoolUrls, i \in PoolIntervals :
          ConfigureGrokProxyPool(u, pu, i)
    \/ \E resp \in PoolResponses : GetGrokProxy(resp)
    \/ \E resp \in PoolResponses : ForceRefreshGrokProxy(resp)
    \/ \E resp \in PoolResponses : AttemptLookup(resp)
    \/ \E status \in {200, 403} : AttemptResponse(status)
    \/ \E resp \in PoolResponses : AttemptRefresh(resp)
    \/ ProxyTick

ProxySpec == ProxyInit /\ [][ProxyNext]_vars

\* ------------------------------------------------------------------------
\* The proxy pool with its fetches in flight
\* ------------------------------------------------------------------------
\* Here await fetch(poolUrl) is two steps, and the callers are concurrent
\* requests: each awaits its own getGrokProxy or forceRefreshGrokProxy.
PoolCallers == {"r1", "r2"}

notFlight == <<selVars, last, leased, skipHist, dsVars, grokVars, cacheVars, sseVars,
              agg, configKeys, call, mediaVars, selOp, policy, race, acct, svc, grokStream, img>>

\* getGrokProxy up to await fetch(poolUrl): nothing to wait for unless the
\* pool is enabled and a fetch is due
FlightLookup(caller) ==
    /\ proxyHist.configured
    /\ caller \notin fetching
    /\ proxyPool.enabled /\ due(proxyPool, now) /\ contacts(proxyPool)
    /\ fetching' = fetching \cup {caller}
    /\ UNCHANGED <<now, proxyVars, notFlight>>

\* forceRefreshGrokProxy up to await fetch(poolUrl)
FlightRefresh(caller) ==
    /\ proxyHist.configured
    /\ caller \notin fetching
    /\ proxyPool.enabled /\ contacts(proxyPool)
    /\ fetching' = fetching \cup {caller}
    /\ UNCHANGED <<now, proxyVars, notFlight>>

\* fetchProxy after the answer of the pool
FlightDone(caller, resp) ==
    /\ caller \in fetching
    /\ LET began == [proxyPool EXCEPT !.poolUrl = <<Url("http", "pool")>>]
           \* line 28 was passed when the fetch began
       IN  proxyPool' = [fetchProxy(began, resp, now) EXCEPT !.poolUrl = proxyPool.poolUrl]
    /\ fetching' = fetching \ {caller}
    /\ UNCHANGED <<now, proxyOp, retrying, proxyHist, notFlight>>

FlightNext ==
    \/ \E u \in ProxyUrls, pu \in PoolUrls, i \in PoolIntervals :
          ConfigureGrokProxyPool(u, pu, i)
    \/ \E caller \in PoolCallers : FlightLookup(caller)
    \/ \E caller \in PoolCallers : FlightRefresh(caller)
    \/ \E caller \in PoolCallers, resp \in PoolResponses : FlightDone(caller, resp)
    \/ ProxyTick

FlightSpec == ProxyInit /\ [][FlightNext]_vars

\* ------------------------------------------------------------------------
\* Grok media cache
\* ------------------------------------------------------------------------
\* grok.<cacheType>_cache_max_size_mb in bytes, and the sizes of the files
MaxBytes == 2
FileSizes == {1, 2}

\* What the assets host answers to an attempt: a body of some size, 403, a
\* status of grok.retry_status_codes, another status that is not ok, or the
\* fetch throws (network error, abort by the timeout).
Outcomes == {[kind |-> "ok", size |-> n] : n \in FileSizes}
            \cup {[kind |-> k] : k \in {"403", "retryCode", "notOk", "throws"}}

notMedia == <<selVars, now, last, leased, skipHist, dsVars, grokVars, cacheVars, sseVars,
             agg, configKeys, call, proxyVars, selOp, lateVars>>

\* The directory may hold a file of an earlier run.
MediaInit ==
    /\ accountMap = {}
    /\ inUse = [a \in Accounts |-> FALSE]
    /\ order = [m \in Models |-> <<>>]
    /\ cursor = [m \in Models |-> 0]
    /\ skippedUntil = [m \in Models |-> [a \in Accounts |-> 0]]
    /\ now = TickMs
    /\ last = NoCall
    /\ leased = [a \in Accounts |-> 0]
    /\ skipEnd = [m \in Models |-> [a \in Accounts |-> 0]]
    /\ skipMaxEnd = [m \in Models |-> [a \in Accounts |-> 0]]
    /\ s4 = "off"
    /\ DsIdle
    /\ accountEntries = {}
    /\ hasToken = {}
    /\ tokenData = [ssoNormal |-> <<>>, ssoSuper |-> <<>>]
    /\ grokSel = NoSelection
    /\ ReqIdle
    /\ CacheIdle
    /\ SseIdle
    /\ agg = NoAggregation
    /\ configKeys = {}
    /\ call = NoCompletionCall
    /\ ProxyIdle
    /\ selOp = NoSelectorCall
    /\ LateIdle
    /\ \E n \in FileSizes \cup {0} :
          cacheDir = [f \in CacheFiles |->
                        IF f = OldFile /\ n > 0
                        THEN [exists |-> TRUE, size |-> n, mtime |-> 0] ELSE NoFile]
    /\ download = [d \in Downloads |-> NoDownload]
    /\ cleaning = NoCleanup
    /\ mediaHist = NoMediaHist

\* download: a cached file is returned at once, otherwise the loops begin.
DownloadStart(d, path) ==
    /\ download[d].pc = "idle"
    /\ download' = [download EXCEPT ![d] =
                      IF cacheDir[path].exists
                      THEN [NoDownload EXCEPT !.pc = "returned", !.path = path,
                                              !.result = "cachePath"]
                      ELSE [NoDownload EXCEPT !.pc = "attempt", !.path = path]]
    /\ UNCHANGED <<cacheDir, cleaning, mediaHist, notMedia>>

\* return null
returnsNull(dl) == [dl EXCEPT !.pc = "returned", !.result = "null"]

\* One pass of the while loop: the fetch and what follows from its outcome.
\* 403: retry403 += 1 and, up to max403Retries, a pause and the next pass.
\* Retry code: below maxOuterRetry a pause and the next pass of the for loop,
\* with retry403 = 0. Throw: if outer < maxOuterRetry - 1, a pause and
\* continue, which is the next pass of the while loop with outer and
\* retry403 as they are. A body is written to the cache path.
DownloadAttempt(d, outcome) ==
    /\ download[d].pc = "attempt"
    /\ LET dl == download[d]
       IN  CASE outcome.kind = "403" ->
                  /\ download' = [download EXCEPT ![d] =
                        IF dl.retry403 + 1 <= max403Retries
                        THEN [dl EXCEPT !.pc = "pause", !.retry403 = @ + 1]
                        ELSE returnsNull([dl EXCEPT !.retry403 = @ + 1])]
                  /\ UNCHANGED <<cacheDir, mediaHist>>
             [] outcome.kind = "retryCode" ->
                  /\ download' = [download EXCEPT ![d] =
                        IF dl.outer < maxOuterRetry
                        THEN [dl EXCEPT !.pc = "pause", !.outer = @ + 1, !.retry403 = 0]
                        ELSE returnsNull(dl)]
                  /\ UNCHANGED <<cacheDir, mediaHist>>
             [] outcome.kind = "notOk" ->
                  /\ download' = [download EXCEPT ![d] = returnsNull(dl)]
                  /\ UNCHANGED <<cacheDir, mediaHist>>
             [] outcome.kind = "throws" ->
                  /\ download' = [download EXCEPT ![d] =
                        IF dl.outer < maxOuterRetry - 1
                        THEN [dl EXCEPT !.pc = "pause"]
                        ELSE returnsNull(dl)]
                  /\ UNCHANGED <<cacheDir, mediaHist>>
             [] outcome.kind = "ok" ->
                  /\ cacheDir' = [cacheDir EXCEPT ![dl.path] =
                                    [exists |-> TRUE, size |-> outcome.size,
                                     mtime |-> mediaHist.writes + 1]]
                  /\ mediaHist' = [mediaHist EXCEPT !.writes = @ + 1]
                  /\ download' = [download EXCEPT ![d] = [dl EXCEPT !.pc = "written"]]
    /\ UNCHANGED <<cleaning, notMedia>>

\* The pause before the next pass is over.
DownloadResume(d) ==
    /\ download[d].pc = "pause"
    /\ download' = [download EXCEPT ![d].pc = "attempt"]
    /\ UNCHANGED <<cacheDir, cleaning, mediaHist, notMedia>>

\* After writeFile: this.cleanup().catch(() => null); return cachePath. The
\* call of cleanup runs to its first await: it returns if a cleanup is in
\* progress and sets cleanupInProgress otherwise.
DownloadWritten(d) ==
    /\ download[d].pc = "written"
    /\ download' = [download EXCEPT ![d].pc = "returned", ![d].result = "cachePath"]
    /\ cleaning' = IF cleaning.cleanupInProgress THEN cleaning
                   ELSE [cleaning EXCEPT !.cleanupInProgress = TRUE, !.pc = "scan"]
    /\ UNCHANGED <<cacheDir, mediaHist, notMedia>>

\* The entry of a file as cleanup reads it
entryOf(f) == [path |-> f, size |-> cacheDir[f].size, mtime |-> cacheDir[f].mtime]

RECURSIVE sumSizes(_)
sumSizes(S) ==
    IF S = {} THEN 0
    ELSE LET f == CHOOSE x \in S : TRUE IN cacheDir[f].size + sumSizes(S \ {f})

\* entries.sort((a, b) => a.mtime - b.mtime)
RECURSIVE sortByMtime(_)
sortByMtime(S) ==
    IF S = {} THEN <<>>
    ELSE LET f == CHOOSE x \in S : \A y \in S : cacheDir[x].mtime <= cacheDir[y].mtime
         IN  <<entryOf(f)>> \o sortByMtime(S \ {f})

\* finally { this.cleanupInProgress = false }
cleanupDone == NoCleanup

\* cleanup: readdir and stat of every file, the total; nothing to do if the
\* total is within maxBytes, otherwise the entries sorted by mtime
CleanupScan ==
    /\ cleaning.pc = "scan"
    /\ LET files == {f \in CacheFiles : cacheDir[f].exists}
           total == sumSizes(files)
       IN  cleaning' = IF total <= MaxBytes THEN cleanupDone
                       ELSE [cleaning EXCEPT !.pc = "evict",
                                             !.entries = sortByMtime(files),
                                             !.total = total]
    /\ UNCHANGED <<cacheDir, download, mediaHist, notMedia>>

\* cleanup: unlink of the next entry, total -= entry.size, and the loop ends
\* when the total is within maxBytes or the entries are used up
CleanupUnlink ==
    /\ cleaning.pc = "evict"
    /\ LET entry == Head(cleaning.entries)
           rest == Tail(cleaning.entries)
           total == cleaning.total - entry.size
       IN  /\ cacheDir' = [cacheDir EXCEPT ![entry.path] = NoFile]
           /\ mediaHist' = [mediaHist EXCEPT
                              !.evicted = @ + 1,
                              !.newestEvicted = IF cacheDir[entry.path].mtime > @
                                                THEN cacheDir[entry.path].mtime ELSE @]
           /\ cleaning' = IF total <= MaxBytes \/ rest = <<>> THEN cleanupDone
                          ELSE [cleaning EXCEPT !.entries = rest, !.total = total]
    /\ UNCHANGED <<download, notMedia>>

CleanupStep == CleanupScan \/ CleanupUnlink

MediaNext ==
    \/ \E d \in Downloads, path \in AssetPaths : DownloadStart(d, path)
    \/ \E d \in Downloads, outcome \in Outcomes : DownloadAttempt(d, outcome)
    \/ \E d \in Downloads : DownloadResume(d)
    \/ \E d \in Downloads : DownloadWritten(d)
    \/ CleanupScan
    \/ CleanupUnlink

MediaSpec == MediaInit /\ [][MediaNext]_vars

\* Every call of download that has begun goes on, and so does cleanup: they
\* are promise chains of the event loop, resumed by timers and by the
\* completion of fetch and of the file operations.
MediaFairSpec ==
    /\ MediaSpec
    /\ \A d \in Downloads :
          WF_vars(\/ \E outcome \in Outcomes : DownloadAttempt(d, outcome)
                  \/ DownloadResume(d)
                  \/ DownloadWritten(d))
    /\ WF_vars(CleanupStep)

\* ------------------------------------------------------------------------
\* The retry policy of the Grok calls
\* ------------------------------------------------------------------------
\* What the upstream answers to an attempt
PolicyAnswers == {"ok", "403", "retryCode", "notOk", "throws"}

notPolicy == <<selVars, now, last, leased, skipHist, dsVars, grokVars, cacheVars, sseVars,
              agg, configKeys, call, proxyVars, mediaVars, selOp, race, fetching, acct, svc, grokStream, img>>

\* The call returns or throws: it is over, and its locals are gone.
over(p) == [NoPolicyCall EXCEPT !.pc = "returned"]

\* A call begins, with outer = 0 and retry403 = 0. The calls do not share
\* the counters, so one is followed at a time.
PolicyBegin(c) ==
    /\ \A o \in PolicyCallers : policy[o].pc \in {"idle", "returned"}
    /\ policy' = [policy EXCEPT ![c] = [NoPolicyCall EXCEPT !.pc = "lookup"]]
    /\ UNCHANGED notPolicy

\* const proxy = await getGrokProxy(), at the head of the while loop
PolicyLookup(c) ==
    /\ policy[c].pc = "lookup"
    /\ policy' = [policy EXCEPT ![c].pc = "fetch",
                                ![c].calls = Append(@, "getGrokProxy")]
    /\ UNCHANGED notPolicy

\* The answer to the attempt. 403: retry403 += 1 and, up to max403Retries,
\* grokRequest, getRateLimit and uploadImage go on to forceRefreshGrokProxy
\* and the pause, download to the pause alone. A retry status goes to the
\* next pass of the for loop below maxOuterRetry. A throw leaves the three
\* calls of part_020; download catches it and continues if
\* outer < maxOuterRetry - 1.
PolicyAnswer(c, answer) ==
    /\ policy[c].pc = "fetch"
    /\ LET p == [policy[c] EXCEPT !.status = answer, !.calls = <<>>]
       IN  policy' = [policy EXCEPT ![c] =
              CASE answer = "403" ->
                     IF p.retry403 + 1 <= max403Retries
                     THEN [p EXCEPT !.retry403 = @ + 1,
                                    !.pc = IF c = "download" THEN "pause" ELSE "refresh"]
                     ELSE over([p EXCEPT !.retry403 = @ + 1])
                [] answer = "retryCode" ->
                     IF p.outer < maxOuterRetry
                     THEN [p EXCEPT !.outer = @ + 1, !.retry403 = 0, !.pc = "pause"]
                     ELSE over(p)
                [] answer = "throws" ->
                     IF c = "download" /\ p.outer < maxOuterRetry - 1
                     THEN [p EXCEPT !.pc = "pause"]
                     ELSE over(p)
                [] OTHER -> over(p)]
    /\ UNCHANGED notPolicy

\* await forceRefreshGrokProxy()
PolicyRefresh(c) ==
    /\ policy[c].pc = "refresh"
    /\ policy' = [policy EXCEPT ![c].pc = "pause",
                                ![c].calls = Append(@, "forceRefreshGrokProxy")]
    /\ UNCHANGED notPolicy

\* The pause is over: continue, or the next pass of the for loop
PolicyResume(c) ==
    /\ policy[c].pc = "pause"
    /\ policy' = [policy EXCEPT ![c].pc = "lookup"]
    /\ UNCHANGED notPolicy

PolicyNext ==
    \/ \E c \in PolicyCallers : PolicyBegin(c)
    \/ \E c \in PolicyCallers : PolicyLookup(c)
    \/ \E c \in PolicyCallers, answer \in PolicyAnswers : PolicyAnswer(c, answer)
    \/ \E c \in PolicyCallers : PolicyRefresh(c)
    \/ \E c \in PolicyCallers : PolicyResume(c)

PolicySpec == SseInit /\ [][PolicyNext]_vars

\* ------------------------------------------------------------------------
\* One account file under concurrent requests and the refresher
\* ------------------------------------------------------------------------
\* accounts.ts keeps each account as a JSON file read through the token cache.
\* getToken hands out the cached object itself, so the model keeps objects
\* (heap) apart from the file: a cache hit shares an object, a miss parses a
\* new one.
AccountDocs == {[failedCount |-> 0, status |-> "active"],
                [failedCount |-> 2, status |-> "active"]}
FailStatuses == {403, 500}
AccountOps == {"failure", "reset", "refresh"}

notAccount == <<selVars, now, last, leased, skipHist, dsVars, grokVars, cacheVars, sseVars,
               agg, configKeys, call, proxyVars, mediaVars, selOp, policy, race, fetching, svc, grokStream, img>>

\* initAccounts: preloadProject reads the file that is on disk into the cache
InitAccounts(doc) ==
    /\ ~acct.booted
    /\ acct' = [acct EXCEPT !.booted = TRUE, !.file = doc, !.heap[1] = doc,
                            !.cache = 1, !.used = 1, !.start = doc.failedCount]
    /\ UNCHANGED notAccount

\* The cache entry grows older than CACHE_TTL: getToken reads the file again.
AccountExpire ==
    /\ acct.booted /\ acct.cache # 0
    /\ acct' = [acct EXCEPT !.cache = 0]
    /\ UNCHANGED notAccount

\* getAccount: getToken answers from the cache or starts readFile
AccountGet(a, op, status) ==
    /\ acct.booted
    /\ acct.ag[a].pc = "idle"
    /\ acct.ops < MaxAccountOps
    /\ (a = "refresher") <=> (op = "refresh")
    /\ (op # "failure") => status = 500
    /\ LET began == [NoAgent EXCEPT !.op = op, !.status = IF op = "failure" THEN status ELSE 0]
       IN  acct' = [acct EXCEPT
                !.ops = @ + 1,
                !.onlyFailures = @ /\ op = "failure",
                !.ag[a] = IF acct.cache # 0
                          THEN [began EXCEPT !.pc = "got", !.obj = acct.cache]
                          ELSE [began EXCEPT !.pc = "reading"]]
    /\ UNCHANGED notAccount

\* readFile reads what the file holds at that moment
AccountRead(a) ==
    /\ acct.ag[a].pc = "reading"
    /\ acct' = [acct EXCEPT !.ag[a].pc = "read", !.ag[a].text = acct.file]
    /\ UNCHANGED notAccount

\* getToken after readFile: JSON.parse makes a new object and caches it
AccountInstall(a) ==
    /\ acct.ag[a].pc = "read"
    /\ LET o == acct.used + 1
       IN  acct' = [acct EXCEPT !.used = o, !.heap[o] = acct.ag[a].text, !.cache = o,
                                !.ag[a].pc = "got", !.ag[a].obj = o]
    /\ UNCHANGED notAccount

\* recordTokenFailure on one account object
bump(doc, status) ==
    [failedCount |-> doc.failedCount + 1,
     status |-> IF status >= 400 /\ status < 500 /\ doc.failedCount + 1 >= MAX_FAILURES
                THEN "expired" ELSE doc.status]

\* What follows await getAccount, up to await writeFile:
\* recordTokenFailure, resetTokenFailure, or the tests of refreshAllTokens
AccountModify(a) ==
    /\ acct.ag[a].pc = "got"
    /\ LET me == acct.ag[a]
           doc == acct.heap[me.obj]
       IN  CASE me.op = "failure" ->
                  acct' = [acct EXCEPT !.heap[me.obj] = bump(doc, me.status),
                                       !.ag[a].text = bump(doc, me.status),
                                       !.ag[a].pc = "writing"]
             [] me.op = "reset" ->
                  IF doc.failedCount > 0
                  THEN acct' = [acct EXCEPT !.heap[me.obj].failedCount = 0,
                                            !.ag[a].text = [doc EXCEPT !.failedCount = 0],
                                            !.ag[a].pc = "writing"]
                  ELSE acct' = [acct EXCEPT !.ag[a] = NoAgent]
             [] OTHER ->
                  IF doc.status = "expired" \/ doc.failedCount >= 3
                  THEN acct' = [acct EXCEPT !.ag[a] = NoAgent]
                  ELSE acct' = [acct EXCEPT !.ag[a].pc = "polling"]
    /\ UNCHANGED notAccount

\* refreshTokenLimits after its two fetchRateLimit: saveAccount of the object
\* it was given, as that object is now
AccountPolled(a) ==
    /\ acct.ag[a].pc = "polling"
    /\ acct' = [acct EXCEPT !.ag[a].text = acct.heap[acct.ag[a].obj], !.ag[a].pc = "writing"]
    /\ UNCHANGED notAccount

\* saveAccount after writeFile: the file holds the text, the entry is dropped
AccountWritten(a) ==
    /\ acct.ag[a].pc = "writing"
    /\ acct' = [acct EXCEPT !.file = acct.ag[a].text, !.cache = 0,
                            !.fails = IF acct.ag[a].op = "failure" THEN @ + 1 ELSE @,
                            !.ag[a] = NoAgent]
    /\ UNCHANGED notAccount

AccountNext ==
    \/ \E doc \in AccountDocs : InitAccounts(doc)
    \/ AccountExpire
    \/ \E a \in AccountAgents, op \in AccountOps, status \in FailStatuses : AccountGet(a, op, status)
    \/ \E a \in AccountAgents : AccountRead(a)
    \/ \E a \in AccountAgents : AccountInstall(a)
    \/ \E a \in AccountAgents : AccountModify(a)
    \/ \E a \in AccountAgents : AccountPolled(a)
    \/ \E a \in AccountAgents : AccountWritten(a)

AccountSpec == SseInit /\ [][AccountNext]_vars

\* ------------------------------------------------------------------------
\* The token refresh service
\* ------------------------------------------------------------------------
REFRESH_INTERVAL == 3600000
checkInterval == 600000
InitialDelay == 5000
MaxRefreshTicks == 2

\* What the second account file holds; the first is an active token.
SecondDocs == {[failedCount |-> 0, status |-> "active"],
               [failedCount |-> 3, status |-> "active"],
               [failedCount |-> 3, status |-> "expired"]}

notService == <<selVars, now, last, leased, skipHist, dsVars, grokVars, cacheVars, sseVars,
               agg, configKeys, call, proxyVars, mediaVars, selOp, policy, race, fetching, acct, grokStream, img>>

\* startTokenRefreshService with grok.auto_refresh_tokens on
StartTokenRefreshService(doc) ==
    /\ ~svc.started
    /\ svc' = [svc EXCEPT !.started = TRUE, !.serviceEnabled = TRUE,
                          !.initial = TRUE, !.due = svc.clock + InitialDelay,
                          !.refreshTimer = TRUE, !.nextTick = svc.clock + checkInterval,
                          !.docs["t2.json"] = doc]
    /\ UNCHANGED notService

StopTokenRefreshService ==
    /\ svc.started /\ ~svc.stopped
    /\ svc' = [svc EXCEPT !.stopped = TRUE, !.serviceEnabled = FALSE, !.refreshTimer = FALSE]
    /\ UNCHANGED notService

\* refreshAllTokens up to its loop: nothing when the service is off; else
\* getAllAccounts and now = Date.now()
refreshAllTokens(v, c) ==
    IF ~v.serviceEnabled THEN v
    ELSE [v EXCEPT !.cycle[c] = [NoCycle EXCEPT !.pc = "loop", !.now = v.clock,
                                                !.rest = RefreshTokens]]

\* The setTimeout of 5 s fires, no earlier than due
InitialRun(c) ==
    /\ svc.initial /\ svc.clock >= svc.due
    /\ svc.cycle[c].pc = "idle"
    /\ svc' = refreshAllTokens([svc EXCEPT !.initial = FALSE], c)
    /\ UNCHANGED notService

\* The setInterval of 10 minutes fires, no earlier than due
PeriodicRun(c) ==
    /\ svc.refreshTimer /\ svc.clock >= svc.nextTick
    /\ svc.cycle[c].pc = "idle"
    /\ svc' = refreshAllTokens([svc EXCEPT !.nextTick = @ + checkInterval], c)
    /\ UNCHANGED notService

\* The tests of the loop for one account
skips(v, c, t) ==
    \/ v.docs[t].status = "expired"
    \/ v.docs[t].failedCount >= 3
    \/ v.cycle[c].now - v.lastRefreshTimes[t] < REFRESH_INTERVAL

\* One turn of the for loop up to await fetchRateLimit: the poll begins
CycleTurn(c) ==
    /\ svc.cycle[c].pc = "loop"
    /\ IF svc.cycle[c].rest = <<>>
       THEN svc' = [svc EXCEPT !.cycle[c] = NoCycle]
       ELSE LET t == Head(svc.cycle[c].rest)
            IN  IF skips(svc, c, t)
                THEN svc' = [svc EXCEPT !.cycle[c].rest = Tail(@)]
                ELSE svc' = [svc EXCEPT !.cycle[c].pc = "poll",
                                        !.cycle[c].prev = svc.polled[t],
                                        !.cycle[c].at = svc.clock,
                                        !.polled[t] = svc.clock,
                                        !.pollAfterStop = @ \/ svc.stopped]
    /\ UNCHANGED notService

\* refreshTokenLimits after both polls: saveAccount starts writeFile
CyclePolled(c) ==
    /\ svc.cycle[c].pc = "poll"
    /\ svc' = [svc EXCEPT !.cycle[c].pc = "save", !.writeAfterStop = @ \/ svc.stopped]
    /\ UNCHANGED notService

\* After the write: lastRefreshTimes.set(filename, Date.now()); then the
\* pause of one second starts
CycleSaved(c) ==
    /\ svc.cycle[c].pc = "save"
    /\ svc' = [svc EXCEPT !.cycle[c].pc = "sleep",
                          !.lastRefreshTimes[Head(svc.cycle[c].rest)] = svc.clock]
    /\ UNCHANGED notService

\* After the pause: the next account
CycleSlept(c) ==
    /\ svc.cycle[c].pc = "sleep"
    /\ svc' = [svc EXCEPT !.cycle[c].pc = "loop", !.cycle[c].rest = Tail(@),
                          !.cycle[c].prev = -1, !.cycle[c].at = 0]
    /\ UNCHANGED notService

\* Time passes: to 5 s after the boot, then to each multiple of 10 minutes.
nextClock(t) ==
    IF t = BootClock THEN t + InitialDelay
    ELSE IF t = BootClock + InitialDelay THEN BootClock + checkInterval
    ELSE t + checkInterval

RefreshClock ==
    /\ svc.started
    /\ svc.clock < BootClock + MaxRefreshTicks * checkInterval
    /\ svc' = [svc EXCEPT !.clock = nextClock(@)]
    /\ UNCHANGED notService

RefreshNext ==
    \/ \E doc \in SecondDocs : StartTokenRefreshService(doc)
    \/ StopTokenRefreshService
    \/ \E c \in Cycles : InitialRun(c)
    \/ \E c \in Cycles : PeriodicRun(c)
    \/ \E c \in Cycles : CycleTurn(c)
    \/ \E c \in Cycles : CyclePolled(c)
    \/ \E c \in Cycles : CycleSaved(c)
    \/ \E c \in Cycles : CycleSlept(c)
    \/ RefreshClock

RefreshSpec == SseInit /\ [][RefreshNext]_vars

\* ------------------------------------------------------------------------
\* The Grok output stream
\* ------------------------------------------------------------------------
MaxGrokLines == 3

\* What a line of the upstream body may be
GrokLines ==
    {[kind |-> "blank"], [kind |-> "garbage"], [kind |-> "noResponse"],
     [kind |-> "video", content |-> "v"], [kind |-> "images", content |-> "i"],
     [kind |-> "images", content |-> ""]}
    \cup {[kind |-> "token", token |-> t, isThinking |-> th] :
             t \in {"", "array", "a", "<xaiartifact", "b"}, th \in BOOLEAN}

notGrokStream == <<selVars, now, last, leased, skipHist, dsVars, grokVars, cacheVars, sseVars,
                  agg, configKeys, call, proxyVars, mediaVars, selOp, policy, race, fetching,
                  acct, svc, img>>

\* makeChunk: the delta has role and content iff content is not empty;
\* finish_reason is absent when it is null
makeChunk(content, finishReason) ==
    [frame |-> "chunk", role |-> content # "", content |-> content,
     finish_reason |-> finishReason]

DONE == [frame |-> "[DONE]", role |-> FALSE, content |-> "", finish_reason |-> "none"]

\* streamGrok up to its loop; without a body the stream is the two last frames
StreamGrok(hasReader, showThinking) ==
    /\ grokStream.pc = "idle"
    /\ grokStream' =
          IF hasReader
          THEN [NoGrokStream EXCEPT !.pc = "reading", !.showThinking = showThinking]
          ELSE [NoGrokStream EXCEPT !.pc = "closed", !.showThinking = showThinking,
                                    !.frames = <<makeChunk("", "stop"), DONE>>]
    /\ UNCHANGED notGrokStream

\* A token that is passed on
passes(line, showThinking) ==
    /\ line.token # ""
    /\ line.token # "array"
    /\ line.token # "<xaiartifact"
    /\ showThinking \/ ~line.isThinking

\* One line of the body goes through the loop
StreamLine(line) ==
    /\ grokStream.pc = "reading"
    /\ grokStream.lines < MaxGrokLines
    /\ grokStream' =
          CASE line.kind \in {"video", "images"} ->
                 [grokStream EXCEPT !.pc = "closed", !.lines = @ + 1,
                     !.frames = @ \o <<makeChunk(line.content, "stop"), DONE>>]
            [] line.kind = "token" /\ passes(line, grokStream.showThinking) ->
                 [grokStream EXCEPT !.lines = @ + 1,
                     !.frames = Append(@, makeChunk(line.token, "none"))]
            [] OTHER -> [grokStream EXCEPT !.lines = @ + 1]
    /\ UNCHANGED notGrokStream

\* reader.read() answers done
StreamDone ==
    /\ grokStream.pc = "reading"
    /\ grokStream' = [grokStream EXCEPT !.pc = "closed",
                         !.frames = @ \o <<makeChunk("", "stop"), DONE>>]
    /\ UNCHANGED notGrokStream

\* reader.read() rejects: the generator throws
StreamReadError ==
    /\ grokStream.pc = "reading"
    /\ grokStream' = [grokStream EXCEPT !.pc = "thrown"]
    /\ UNCHANGED notGrokStream

GrokStreamNext ==
    \/ \E hasReader \in BOOLEAN, showThinking \in BOOLEAN : StreamGrok(hasReader, showThinking)
    \/ \E line \in GrokLines : StreamLine(line)
    \/ StreamDone
    \/ StreamReadError

GrokStreamSpec == SseInit /\ [][GrokStreamNext]_vars

\* ------------------------------------------------------------------------
\* GET /images/*
\* ------------------------------------------------------------------------
\* A path is a sequence of characters; a resolved path is a sequence of
\* segments below the root.
MaxPathLen == 7
PathChars == {".", "/", "\\", "a"}

\* process.cwd() and the directory the route serves
cwd == << <<"app">> >>
tempDir == cwd \o << <<"data">>, <<"temp">> >>

notImages == <<selVars, now, last, leased, skipHist, dsVars, grokVars, cacheVars, sseVars,
              agg, configKeys, call, proxyVars, mediaVars, selOp, policy, race, fetching,
              acct, svc, grokStream>>

\* pathParam.replace(/\.\.(?:\\|\/)/g, ''): one pass from the left, each
\* match removed, the scan going on after the match
RECURSIVE stripDotDot(_)
stripDotDot(p) ==
    IF p = <<>> THEN <<>>
    ELSE IF Len(p) >= 3 /\ p[1] = "." /\ p[2] = "." /\ p[3] \in {"/", "\\"}
    THEN stripDotDot(SubSeq(p, 4, Len(p)))
    ELSE <<p[1]>> \o stripDotDot(Tail(p))

\* The segments of a path between its slashes (POSIX: a backslash is a
\* character of a name)
RECURSIVE splitPath(_, _)
splitPath(p, segment) ==
    IF p = <<>> THEN <<segment>>
    ELSE IF p[1] = "/" THEN <<segment>> \o splitPath(Tail(p), <<>>)
    ELSE splitPath(Tail(p), Append(segment, p[1]))

\* path.resolve below a directory: empty and "." segments are dropped, ".."
\* goes one up and stays at the root
RECURSIVE resolveFrom(_, _)
resolveFrom(dir, segments) ==
    IF segments = <<>> THEN dir
    ELSE LET seg == Head(segments)
             next == IF seg = <<>> \/ seg = <<".">> THEN dir
                     ELSE IF seg = <<".", ".">>
                     THEN (IF dir = <<>> THEN dir ELSE SubSeq(dir, 1, Len(dir) - 1))
                     ELSE Append(dir, seg)
         IN  resolveFrom(next, Tail(segments))

\* resolve(process.cwd(), 'data', 'temp', rest)
resolve(rest) ==
    IF rest # <<>> /\ rest[1] = "/" THEN resolveFrom(<<>>, splitPath(rest, <<>>))
    ELSE resolveFrom(tempDir, splitPath(rest, <<>>))

\* What stat may say of a path: the directories down to data/temp are no files
statOutcomes(filePath) ==
    IF Len(filePath) <= Len(tempDir) /\ filePath = SubSeq(tempDir, 1, Len(filePath))
    THEN {"directory"}
    ELSE {"file", "directory", "ENOENT"}

\* A request is on its way: the path parameter is what follows /images/ in
\* the URL, character by character.
ImagesArrive(ch) ==
    /\ IF img.status # "none"
       THEN ch # "/" /\ img' = [NoImageRequest EXCEPT !.pathParam = <<ch>>]
       ELSE /\ Len(img.pathParam) < MaxPathLen
            /\ img.pathParam = <<>> => ch # "/"
            /\ img' = [img EXCEPT !.pathParam = Append(@, ch)]
    /\ UNCHANGED notImages

\* The handler of GET /images/*
ImagesGet(pathParam, info) ==
    /\ img.status = "none"
    /\ pathParam = img.pathParam
    /\ IF pathParam = <<>>
       THEN img' = [pathParam |-> pathParam, filePath |-> <<>>, status |-> "404"]
       ELSE LET filePath == resolve(stripDotDot(pathParam))
            IN  /\ info \in statOutcomes(filePath)
                /\ img' = [pathParam |-> pathParam, filePath |-> filePath,
                           status |-> CASE info = "file" -> "served"
                                        [] info = "directory" -> "404"
                                        [] OTHER -> "error"]
    /\ UNCHANGED notImages

ImagesNext ==
    \/ \E ch \in PathChars : ImagesArrive(ch)
    \/ \E info \in {"file", "directory", "ENOENT"} : ImagesGet(img.pathParam, info)

ImagesSpec == SseInit /\ [][ImagesNext]_vars

\* ------------------------------------------------------------------------
\* The selector with its calls on record
\* ------------------------------------------------------------------------
notOps == <<dsVars, grokVars, cacheVars, sseVars, agg, configKeys, call, proxyVars,
           mediaVars, lateVars>>

\* The call on record: the operation and its arguments, whether it repeats
\* (a release after the same release, a register of what is registered), and
\* whether an account of the call was leased when it began
called(op) == [NoSelectorCall EXCEPT !.op = op]

OpsRegister(accounts, models) ==
    /\ Register(accounts, models)
    /\ selOp' = [called("register") EXCEPT
                   !.accounts = accounts,
                   !.models = models,
                   !.again = /\ \A i \in 1..Len(accounts) : accounts[i] \in accountMap
                             /\ \A i \in 1..Len(accounts), j \in 1..Len(models) :
                                   Contains(order[models[j]], accounts[i]),
                   !.held = \E i \in 1..Len(accounts) : inUse[accounts[i]]]
    /\ UNCHANGED <<s4, notOps>>

OpsAcquire(m) ==
    /\ Acquire(m)
    /\ selOp' = called("acquire")
    /\ UNCHANGED <<s4, notOps>>

OpsRelease(c) ==
    /\ Release(c)
    /\ selOp' = [called("release") EXCEPT
                   !.account = c,
                   !.again = selOp.op = "release" /\ selOp.account = c,
                   !.held = IF selOp.op = "release" /\ selOp.account = c
                            THEN selOp.held ELSE c \in accountMap /\ inUse[c]]
    /\ UNCHANGED <<s4, notOps>>

OpsSkip(m, c) ==
    /\ Skip(m, c, DefaultSkipMs)
    /\ selOp' = called("skip")
    /\ UNCHANGED <<skipHist, notOps>>

OpsClearSkip(m, c) ==
    /\ ClearSkip(m, c)
    /\ selOp' = called("clearSkip")
    /\ UNCHANGED <<skipHist, notOps>>

OpsTick ==
    /\ Tick(ShortNow)
    /\ selOp' = called("none")
    /\ UNCHANGED <<s4, notOps>>

OpsNext ==
    \/ \E accounts \in AccountLists, models \in ModelLists : OpsRegister(accounts, models)
    \/ \E m \in Models : OpsAcquire(m)
    \/ \E c \in Accounts : OpsRelease(c)
    \/ \E m \in Models, c \in Accounts : OpsSkip(m, c)
    \/ \E m \in Models, c \in Accounts : OpsClearSkip(m, c)
    \/ OpsTick

OpsSpec == SelInit /\ [][OpsNext]_vars

\* ------------------------------------------------------------------------
\* Claims about the selector
\* ------------------------------------------------------------------------

\* An account is inside a skip window of model m: skipUntil > now.
InSkipWindow(m, c) == skippedUntil[m][c] > now

\* An entry of m's ring that acquire may return.
Eligible(m, c) == c \in accountMap /\ ~inUse[c] /\ ~InSkipWindow(m, c)

\* The ring position examined k steps after the cursor.
RingPos(m, k) == (cursor[m] + k) % Len(order[m])
RingAt(m, k) == order[m][RingPos(m, k) + 1]
EligibleSteps(m) == {k \in 0..(Len(order[m]) - 1) : Eligible(m, RingAt(m, k))}
FirstEligibleStep(m) ==
    CHOOSE k \in EligibleSteps(m) : \A j \in EligibleSteps(m) : k <= j

\* C1: between an acquire that returns credential c and the next release(c),
\* no acquire, for the same model or for another model whose ring contains c,
\* returns c: no credential is returned twice without a release in between.
C1_ExclusiveLease == \A c \in Accounts : leased[c] <= 1

\* C1 witness: c is leased through one model while another model, whose ring
\* also contains c, has just been asked and did not get it.
C1_Witness ==
    /\ last.op = "acquire"
    /\ \E c \in Accounts :
          /\ leased[c] = 1
          /\ last.account # c
          /\ Contains(order[last.model], c)
          /\ \E m \in Models \ {last.model} : Contains(order[m], c)

\* C7: acquire(m) returns a credential iff some entry of m's ring is in the
\* credential map, not inUse and not inside a skip window for m; the credential
\* returned is the first such entry in ring order from the cursor, it is marked
\* inUse, and the cursor is left one position past it.
C7_AcquireFirstEligible ==
    [][\A m \in Models :
        (last'.op = "acquire" /\ last'.model = m) =>
            IF EligibleSteps(m) = {}
            THEN last'.account = NoAccount
            ELSE LET k == FirstEligibleStep(m) IN
                 /\ last'.account = RingAt(m, k)
                 /\ inUse'[RingAt(m, k)]
                 /\ cursor'[m] = (RingPos(m, k) + 1) % Len(order[m])]_vars

\* C7 witness: an acquire passed over an entry and returned the next one.
C7_Witness ==
    /\ last.op = "acquire"
    /\ last.account # NoAccount
    /\ last.scanned = 2
    /\ inUse[last.account]

\* C8: when every entry of a model's ring is inUse, inside a skip window or
\* missing from the credential map, acquire returns null after examining
\* exactly ring.size positions, and the cursor, which stays within
\* 0..ring.size-1, ends where it started.
C8_ExhaustedScan ==
    [][\A m \in Models :
        (last'.op = "acquire" /\ last'.model = m /\ EligibleSteps(m) = {}) =>
            /\ last'.account = NoAccount
            /\ last'.scanned = Len(order[m])
            /\ cursor'[m] = cursor[m]
            /\ Len(order[m]) > 0 => cursor'[m] \in 0..(Len(order[m]) - 1)]_vars

\* C8 witness: an acquire on a ring of two entries, one inUse and one inside a
\* skip window, returned null after two positions.
C8_Witness ==
    /\ last.op = "acquire"
    /\ last.account = NoAccount
    /\ last.scanned = 2
    /\ \E c \in Accounts : inUse[c] /\ Contains(order[last.model], c)
    /\ \E c \in Accounts :
          ~inUse[c] /\ Contains(order[last.model], c) /\ InSkipWindow(last.model, c)

\* C9 as stated: after skip(m, c, d) at time t, no acquire(m) before t + d
\* returns c unless clearSkip(m, c) is called, whatever other skips follow.
C9_AnySkipHolds ==
    \A c \in Accounts :
        (last.op = "acquire" /\ last.account = c) => skipMaxEnd[last.model][c] <= now

\* C9 (amended): after skip(m, c, d) at time t, no acquire(m) before t + d
\* returns c unless clearSkip(m, c) or another skip(m, c, .) is called, and
\* from t + d on c is no longer inside the window without any clearSkip; in
\* the scenario on ring [x, y] the three acquires return x, y and, after 60 s, x.
C9_LatestSkipHolds ==
    /\ \A c \in Accounts :
          (last.op = "acquire" /\ last.account = c) => skipEnd[last.model][c] <= now
    /\ \A m \in Models, c \in Accounts :
          skipEnd[m][c] <= now => ~InSkipWindow(m, c)
    /\ (s4 = "acquired1" => last.account = "x")
    /\ (s4 = "acquired2" /\ last.op = "acquire" => last.account = "y")
    /\ (s4 = "acquired3" => last.account = "x")

\* C9 witness: the scenario has run to its last acquire, 60 s after the skip.
C9_Witness == s4 = "acquired3" /\ now >= skipEnd[SkipModel]["x"] /\ skipEnd[SkipModel]["x"] > 0

\* ------------------------------------------------------------------------
\* Claims about the DeepSeek adapter
\* ------------------------------------------------------------------------

\* The request obtained a credential from the selector.
Obtained(r) == result[r] \notin {"none", "bad_request", "no_account"}

\* C2: every DeepSeek request that obtains a credential from the selector
\* releases it exactly once before the request is over, on every exit path:
\* never more than once, and once when the request has ended.
C2_ReleasedExactlyOnce ==
    \A r \in Requests :
        /\ releases[r] <= 1
        /\ (pc[r] = "done" /\ Obtained(r)) => releases[r] = 1

\* C3: when the client closes the connection while a DeepSeek stream is open,
\* the upstream read loop ends and the credential lease is released, even if
\* the upstream produces no further data.
C3_CloseReleases ==
    \A r \in Requests : clientClosed[r] ~> (pc[r] = "done" /\ releases[r] = 1)

\* C10: when the completion endpoint answers with a non-2xx status, the
\* credential is in a skip window for the requested model and its lease is
\* released by the time the request has ended with the error, and no acquire
\* for that model returns it during the next 30 seconds.
C10_CompletionFailureSkips ==
    /\ \A r \in Requests :
          (pc[r] = "done" /\ result[r] = "completion_failed") => releases[r] = 1
    /\ \A m \in Models, c \in Accounts :
          (failedAt[m][c] > 0 /\ now < failedAt[m][c] + 30 * 1000) =>
              /\ InSkipWindow(m, c)
              /\ ~(last.op = "acquire" /\ last.model = m /\ last.account = c)

\* C10 witness: a request has ended with a completion failure on (m, c), c is
\* free again, and within the 30 seconds an acquire for m has passed over c.
C10_Witness ==
    \E m \in Models, c \in Accounts :
        /\ \E r \in Requests : pc[r] = "done" /\ result[r] = "completion_failed"
        /\ failedAt[m][c] > 0
        /\ now < failedAt[m][c] + 30 * 1000
        /\ ~inUse[c]
        /\ last.op = "acquire" /\ last.model = m
        /\ last.account \notin {c, NoAccount}
        /\ last.scanned = 2


\* ------------------------------------------------------------------------
\* Claims about the Grok token ranking
\* ------------------------------------------------------------------------
RECURSIVE Records(_)
Records(tokens) ==
    IF tokens = <<>> THEN {} ELSE {Head(tokens)} \cup Records(Tail(tokens))

NormalRecords == Records(tokenData[NORMAL])
SuperRecords == Records(tokenData[SUPER])
StoredRecords == NormalRecords \cup SuperRecords

\* The selections a request made: of the client and of the account-file variant.
Selected == {grokSel.token, grokSel.queued} \ {"none"}

\* A record is eligible for the field when it is active, below the failure
\* limit and its quota in the field is not 0.
EligibleFor(rec, field) ==
    /\ rec.status # "expired"
    /\ rec.failedCount < 3
    /\ rec[field] # 0

\* What the ranking must pick from the records of one tier: some eligible
\* token of unknown quota, else an eligible token of the largest quota.
BestOf(recs, field, key) ==
    LET eligible == {r \in recs : EligibleFor(r, field)}
        unknown == {r \in eligible : r[field] = -1}
    IN  \E r \in eligible :
          /\ r.key = key
          /\ IF unknown # {} THEN r \in unknown
             ELSE \A o \in eligible : o[field] <= r[field]

\* C4: a grok-4-heavy request only ever gets a token of the ssoSuper map; with
\* normal token A (quota unknown, active) and super token B (quota MaxQuota,
\* active) in the store, a heavy request gets B and a grok-4-fast request A.
C4_HeavyOnlySuper ==
    /\ (grokSel.model = "grok-4-heavy" /\ grokSel.token # "none")
          => /\ grokSel.tokenType = SUPER
             /\ \E r \in SuperRecords : r.key = grokSel.token
    /\ (/\ grokSel.model # "none"
        /\ NormalRecords = {TokenRecord("A", [status |-> "active", failedCount |-> MAX_FAILURES - 1], -1, -1)}
        /\ SuperRecords = {TokenRecord("B", [status |-> "active", failedCount |-> MAX_FAILURES - 1], MaxQuota, MaxQuota)})
          => grokSel.token = (IF grokSel.model = "grok-4-heavy" THEN "B" ELSE "A")

\* C5: whatever the store holds and whichever model is requested, the selected
\* token is not expired, has failed fewer than 3 times and has a quota other
\* than 0 in the field of the requested tier.
C5_SelectedIsEligible ==
    \A key \in Selected : \A r \in StoredRecords :
        r.key = key => EligibleFor(r, quotaField(grokSel.model))

\* A token was selected although the first token of each map was ineligible,
\* one of them by its failure count alone.
C5_Witness ==
    /\ grokSel.token = "C"
    /\ grokSel.queued = "C"
    /\ \E r \in NormalRecords :
          /\ r.key = "A"
          /\ r.status = "active"
          /\ r.failedCount = 3
          /\ r[quotaField(grokSel.model)] = -1
    /\ \E r \in SuperRecords :
          r.key = "B" /\ ~EligibleFor(r, quotaField(grokSel.model))

\* C6: for a non-heavy model the selection is a normal token of unknown quota
\* if one is eligible, else the eligible normal token of the largest remaining
\* quota, else a super token of unknown quota, else the eligible super token
\* of the largest remaining quota.
C6_RankingOrder ==
    (grokSel.model \notin {"none", "grok-4-heavy"}) =>
        LET field == "remainingQueries"
            anyNormal == \E r \in NormalRecords : EligibleFor(r, field)
            anySuper == \E r \in SuperRecords : EligibleFor(r, field)
        IN  \A key \in {grokSel.token, grokSel.queued} :
              IF anyNormal THEN BestOf(NormalRecords, field, key)
              ELSE IF anySuper THEN BestOf(SuperRecords, field, key)
              ELSE key = "none"

\* The second normal token was selected for its larger known quota, ahead of
\* the first normal token and of a super token of unknown quota.
C6_Witness ==
    /\ grokSel.model = "grok-4-fast"
    /\ grokSel.token = "C"
    /\ grokSel.tokenType = NORMAL
    /\ grokSel.queued = "C"
    /\ \E a \in NormalRecords, c \in NormalRecords :
          /\ a.key = "A"
          /\ c.key = "C"
          /\ EligibleFor(a, "remainingQueries")
          /\ a.remainingQueries = LowQuota
          /\ c.remainingQueries = MaxQuota
    /\ \E b \in SuperRecords :
          EligibleFor(b, "remainingQueries") /\ b.remainingQueries = -1


\* ------------------------------------------------------------------------
\* Claims about Grok completion requests
\* ------------------------------------------------------------------------
\* The statusCode of the error a DeepSeek request ends with; an exception
\* that is not an H3 error is answered with 500.
statusCode(res) ==
    CASE res = "bad_request" -> 400
      [] res = "no_account" -> 429
      [] res = "account_missing" -> 500
      [] OTHER -> 500

failedCountOf(data, sso) ==
    IF hasKey(data[NORMAL], sso) THEN recordOf(data[NORMAL], sso).failedCount
    ELSE IF hasKey(data[SUPER], sso) THEN recordOf(data[SUPER], sso).failedCount
    ELSE 0

statusOf(data, sso) ==
    IF hasKey(data[NORMAL], sso) THEN recordOf(data[NORMAL], sso).status
    ELSE IF hasKey(data[SUPER], sso) THEN recordOf(data[SUPER], sso).status
    ELSE "none"

Is4xx(status) == status >= 400 /\ status < 500

\* C11: with no credential available for the model, a DeepSeek request is
\* answered with 429 and a Grok request with 503.
C11_NoCredentialStatus ==
    /\ \A r \in Requests : result[r] = "no_account" => statusCode(result[r]) = 429
    /\ grokReq.result = "no_token" => grokReq.http = 503

\* The fetches a request in flight may still make: the rounds left times the
\* length of a round, plus what is left of this round.
FetchesLeft(req) ==
    (maxOuterRetry - req.outer) * (max403Retries + 1) + (max403Retries - req.retry403)

StoredTokens == {r.key : r \in StoredRecords}

\* The step recorded a failure with the status on the token.
RecordsFailure(sso, status) ==
    grokLast' = [op |-> "recordFailure", token |-> sso, status |-> status]

\* C13: a token becomes expired exactly in a step that records a failure with
\* a 4xx status on it and brings its failedCount to 3 or more; a recorded 5xx
\* failure leaves the status as it was, whatever the count; the account-file
\* variant decides in the same way.
C13_ExpiredExactlyOn4xx ==
    [][/\ \A sso \in StoredTokens :
            /\ (statusOf(tokenData', sso) = "expired" /\ statusOf(tokenData, sso) # "expired")
                  <=> /\ statusOf(tokenData, sso) # "expired"
                      /\ \E status \in Responses :
                            /\ Is4xx(status)
                            /\ RecordsFailure(sso, status)
                            /\ failedCountOf(tokenData', sso) >= 3
            /\ (\E status \in Responses : ~Is4xx(status) /\ RecordsFailure(sso, status))
                  => statusOf(tokenData', sso) = statusOf(tokenData, sso)
       /\ \A account \in StoredRecords : \A status \in Responses \ {200} :
            (recordTokenFailure(account, status).status = "expired")
               <=> \/ account.status = "expired"
                   \/ Is4xx(status) /\ account.failedCount + 1 >= 3
      ]_vars

\* A 4xx failure has just expired a token at its third failure, while the
\* other token is still active after three failures or more.
C13_Witness ==
    /\ grokLast.op = "recordFailure"
    /\ Is4xx(grokLast.status)
    /\ statusOf(tokenData, grokLast.token) = "expired"
    /\ failedCountOf(tokenData, grokLast.token) >= 3
    /\ \E r \in StoredRecords : r.status = "active" /\ r.failedCount >= 3

\* The step ends the request in flight with a failure that is recorded.
EndsInFailure ==
    /\ grokReq.pc = "fetch"
    /\ grokReq'.pc = "done"
    /\ grokReq'.result \in {"blocked", "retries_exhausted", "http_error"}

EndsInSuccess ==
    /\ grokReq.pc = "fetch"
    /\ grokReq'.pc = "done"
    /\ grokReq'.result = "ok"

\* C14 as stated: a completion request that ends in failure adds exactly one
\* to the failedCount of its token, and after a successful completion the
\* failedCount of the token is 0 until the next failed completion on it.
C14_ConsecutiveFailures ==
    [][/\ EndsInFailure =>
            failedCountOf(tokenData', grokReq.token) = failedCountOf(tokenData, grokReq.token) + 1
       /\ \A sso \in StoredTokens : okSince'[sso] => failedCountOf(tokenData', sso) = 0
      ]_vars

\* C14 (amended): a completion request that ends in failure adds exactly one
\* to the failedCount of its token, a successful completion sets it to 0, and
\* in between the count changes only by one more for each failure recorded on
\* the token, which a failed rate-limit poll records just as well, the poll
\* started by the successful completion included.
C14_FailuresSinceSuccess ==
    [][/\ EndsInFailure =>
            failedCountOf(tokenData', grokReq.token) = failedCountOf(tokenData, grokReq.token) + 1
       /\ EndsInSuccess => failedCountOf(tokenData', grokReq.token) = 0
       /\ \A sso \in StoredTokens :
            failedCountOf(tokenData', sso) # failedCountOf(tokenData, sso)
               => \/ /\ EndsInSuccess
                     /\ sso = grokReq.token
                  \/ /\ \E status \in Responses \ {200} : RecordsFailure(sso, status)
                     /\ failedCountOf(tokenData', sso) = failedCountOf(tokenData, sso) + 1
      ]_vars

\* The last completion on the token succeeded, clearing earlier failures, and
\* the rate-limit poll it started has recorded a failure on the token since.
C14_Witness ==
    /\ grokLast.op = "recordFailure"
    /\ okSince[grokLast.token]
    /\ failedCountOf(tokenData, grokLast.token) = 1
    /\ grokReq.pc = "done"
    /\ grokReq.result = "ok"
    /\ grokReq.token = grokLast.token
    /\ polls = {}

\* ------------------------------------------------------------------------
\* Claims about the token-file cache
\* ------------------------------------------------------------------------
\* C15: once a credential file has been changed from outside and the watcher
\* has nothing left to deliver, a getToken for that file reads the file again
\* and returns what the file holds now, whatever the cache was asked before
\* the change.
C15_ChangeIsReread ==
    [][\A f \in Files :
          (ret' # NoRet /\ ret'.file = f /\ f \in changedSince /\ events = {})
              => (ret'.read /\ ret'.data = readToken(disk[f]))]_vars

\* C16: getToken returns the cached object without reading the file exactly
\* when the file has an entry younger than CACHE_TTL; otherwise it reads the
\* file, and either caches the parsed document with the current time and
\* returns it, or, the file being missing or not JSON, returns null and leaves
\* no entry for the file.
C16_GetToken ==
    [][/\ \A f \in Files :
            (getOp = "none" /\ getOp' = f)
                => ~(cached[f] # <<>> /\ time - cached[f][1].timestamp < CACHE_TTL)
       /\ ret' # NoRet =>
            IF getOp = "none"
            THEN /\ cached[ret'.file] # <<>>
                 /\ time - cached[ret'.file][1].timestamp < CACHE_TTL
                 /\ ~ret'.read
                 /\ ret'.data = <<cached[ret'.file][1].data>>
                 /\ cached' = cached
            ELSE /\ ret'.read
                 /\ ret'.file = getOp
                 /\ IF disk[getOp].exists /\ disk[getOp].json # <<>>
                    THEN /\ ret'.data = disk[getOp].json
                         /\ cached'[getOp] = <<[data |-> disk[getOp].json[1],
                                                 timestamp |-> time]>>
                    ELSE /\ ret'.data = null
                         /\ cached'[getOp] = <<>>
      ]_vars

\* getToken has just answered from an entry that is at least a scan interval
\* old.
C16_Witness ==
    /\ ret # NoRet
    /\ ~ret.read
    /\ cached[ret.file] # <<>>
    /\ time - cached[ret.file][1].timestamp >= SCAN_INTERVAL

\* C17: when the caller of getToken changes the object it was given, the
\* entries of the cache, and with them what later getToken calls return from
\* the cache, stay as they were.
C17_ReturnsCopy ==
    [][(ret' = NoRet /\ held' # held) => cached' = cached]_vars

\* C18: after tokens/add or tokens/delete has succeeded, and as long as nothing
\* else has written or removed the file, a getTokenList that returns lists an
\* added file and does not list a deleted one, and a getToken for a deleted
\* file returns null.
C18_ManagementReflected ==
    [][(mgmt.pc = "done" /\ mgmt.intact) =>
          /\ (listed' # NoList /\ mgmt.op = "add") => mgmt.file \in listed'[1]
          /\ (listed' # NoList /\ mgmt.op = "delete") => mgmt.file \notin listed'[1]
          /\ (ret' # NoRet /\ ret'.file = mgmt.file /\ mgmt.op = "delete")
                => ret'.data = null
      ]_vars

\* ------------------------------------------------------------------------
\* Claims about the DeepSeek output stream
\* ------------------------------------------------------------------------
\* The frames that carry a delta of the answer, in the order they were written
deltas == SelectSeq(out, LAMBDA frame : frame.kind = "delta")

\* C19: in every output stream, for every upstream event sequence and each of
\* the four models, if any delta frame has been written then the first one,
\* and no other, carries role: "assistant".
C19_RoleOnFirstDelta ==
    Len(deltas) > 0 =>
        /\ deltas[1].role
        /\ \A i \in 2..Len(deltas) : ~deltas[i].role

\* C20: an output stream that has ended without an upstream read error ends
\* with a frame carrying finish_reason: "stop" followed by data: [DONE], has
\* no other such frame, and no stream has any frame after data: [DONE].
C20_StopThenDone ==
    /\ \A i \in 1..Len(out) : out[i].kind = "done" => i = Len(out)
    /\ (sse.pc = "closed" /\ sse.upstream # "error") =>
          /\ Len(out) >= 2
          /\ out[Len(out) - 1].kind = "finish"
          /\ out[Len(out)].kind = "done"
          /\ \A i \in 1..Len(out) : out[i].kind = "finish" => i = Len(out) - 1

\* ------------------------------------------------------------------------
\* Claims about the aggregation of a stream
\* ------------------------------------------------------------------------
\* The string of an optional field: empty when the field is left out
stringOf(field) == IF field = <<>> THEN <<>> ELSE field[1]

C22_OnlyConfiguredKeys ==
    /\ (call.pc = "adapter" \/ call.upstream # "none") => call.key \in configKeys
    /\ (call.pc = "done" /\ call.key \notin configKeys) => call.status = 401

\* ------------------------------------------------------------------------
\* Claims about the Grok proxy pool
\* ------------------------------------------------------------------------
\* A step of getGrokProxy, by any caller
lookupStep == proxyOp' # proxyOp /\ proxyOp'.op = "getGrokProxy"

\* A pool fetch of any caller has happened, and so long ago (ms)
sinceFetch == now - proxyHist.fetchedAt[1]
sinceInstall == now - proxyHist.installedAt[1]
intervalMs == proxyPool.fetchInterval * 1000

\* C23: with pool polling enabled the first lookup fetches from the pool URL;
\* a later lookup fetches again iff at least the interval has passed since
\* the last fetch, and a lookup that does not fetch returns the current proxy.
C23_FetchIffIntervalSinceFetch ==
    [][(proxyPool.enabled /\ lookupStep) =>
         /\ proxyOp'.fetched <=> (\/ ~proxyHist.lookedUp
                                  \/ proxyHist.fetchedAt # null /\ sinceFetch >= intervalMs)
         /\ ~proxyOp'.fetched => /\ proxyOp'.returned = proxyPool.currentProxy
                                 /\ proxyPool' = proxyPool]_vars

\* C23 as the code has it: the interval runs from the last fetch that
\* installed a proxy; a fetch that threw, was answered with an error status
\* or with a string that fails validation does not start it, so until a fetch
\* installs a proxy every lookup fetches.
C23_FetchIffIntervalSinceInstall ==
    [][(proxyPool.enabled /\ lookupStep) =>
         /\ ~proxyHist.lookedUp => proxyOp'.fetched
         /\ proxyOp'.fetched <=> (\/ proxyHist.installedAt = null
                                  \/ sinceInstall >= intervalMs)
         /\ ~proxyOp'.fetched => /\ proxyOp'.returned = proxyPool.currentProxy
                                 /\ proxyPool' = proxyPool]_vars

\* A lookup inside the interval, after time has passed, returned the proxy
\* installed before without a fetch.
C23_Witness ==
    /\ proxyPool.enabled
    /\ proxyOp.op = "getGrokProxy"
    /\ ~proxyOp.fetched
    /\ proxyHist.installedAt # null
    /\ sinceInstall > 0
    /\ proxyOp.returned = proxyPool.currentProxy
    /\ proxyOp.returned # null

\* The lookup of grokRequest that follows a refresh of its own which obtained
\* a valid proxy
lookupAfterRefresh ==
    /\ retrying.pc = "pause"
    /\ retrying.refreshed # null
    /\ retrying'.pc = "fetch"

\* C24: after forceRefresh has obtained a valid proxy, the next attempt of
\* the retrying call uses that proxy, and its lookup does not fetch from the
\* pool.
C24_NextAttemptUsesRefreshed ==
    [][lookupAfterRefresh =>
         /\ retrying'.proxy = retrying.refreshed
         /\ ~proxyOp'.fetched]_vars

\* C24 as the code has it: the same, provided the interval is longer than the
\* time since the refresh (the pause of 500 ms at least) and no other caller
\* has fetched from the pool in between.
C24_NextAttemptUsesRefreshedWithinInterval ==
    [][(/\ lookupAfterRefresh
        /\ proxyHist.fetcher = "grokRequest"
        /\ now - (retrying.wake - PauseMs) < intervalMs) =>
         /\ retrying'.proxy = retrying.refreshed
         /\ ~proxyOp'.fetched]_vars

\* The attempt after a 403 and a refresh uses the refreshed proxy; its lookup
\* did not fetch.
C24_Witness ==
    /\ retrying.pc = "fetch"
    /\ retrying.retry403 >= 1
    /\ retrying.refreshed # null
    /\ retrying.proxy = retrying.refreshed
    /\ proxyOp.op = "getGrokProxy"
    /\ proxyOp.caller = "grokRequest"
    /\ ~proxyOp.fetched

\* The configured proxy_pool_url starts with a proxy scheme.
poolUrlIsProxy == proxyHist.proxy_pool_url.scheme \in {"sock5", "sock5h", "socks5", "socks5h"}

\* C25: when proxy_pool_url is empty or starts with a proxy scheme, no
\* request is ever sent to the pool URL, and a proxy-like pool URL is the
\* static proxy.
C25_NoPollingProxyLikeIsStatic ==
    (proxyHist.configured /\ (proxyHist.proxy_pool_url = EmptyString \/ poolUrlIsProxy)) =>
        /\ proxyHist.fetchedAt = null
        /\ ~proxyOp.fetched
        /\ poolUrlIsProxy =>
              proxyPool.staticProxy = <<normalizeProxy(proxyHist.proxy_pool_url)>>

\* C25 as the code has it: a proxy-like pool URL is the static proxy only
\* when proxy_url is not set; when it is set, proxy_url stays the static
\* proxy and the pool URL is ignored.
C25_NoPollingProxyLikeIsStaticUnlessSet ==
    (proxyHist.configured /\ (proxyHist.proxy_pool_url = EmptyString \/ poolUrlIsProxy)) =>
        /\ proxyHist.fetchedAt = null
        /\ ~proxyOp.fetched
        /\ poolUrlIsProxy =>
              proxyPool.staticProxy =
                 IF proxyHist.proxy_url = EmptyString
                 THEN <<normalizeProxy(proxyHist.proxy_pool_url)>>
                 ELSE <<normalizeProxy(proxyHist.proxy_url)>>

\* With a proxy-like pool URL and no proxy_url, a forced refresh after a 403
\* returned the pool URL as the proxy.
C25_Witness ==
    /\ proxyHist.configured
    /\ poolUrlIsProxy
    /\ proxyHist.proxy_url = EmptyString
    /\ proxyOp.op = "forceRefreshGrokProxy"
    /\ proxyOp.returned = <<normalizeProxy(proxyHist.proxy_pool_url)>>
    /\ proxyHist.fetchedAt = null

\* The answer of the pool is a string that starts with an accepted scheme,
\* the misspelt ones included.
accepted(resp) ==
    /\ resp.kind = "ok"
    /\ resp.text # EmptyString
    /\ resp.text.scheme \in {"http", "https", "socks5", "socks5h", "sock5", "sock5h"}

\* C26: when a pool fetch throws, is answered with a non-2xx status or with a
\* string that does not start with an accepted scheme, currentProxy keeps its
\* value if it had one and otherwise becomes staticProxy; such a string is
\* never installed.
C26_FailedFetchKeepsProxy ==
    [][(proxyOp' # proxyOp /\ proxyOp'.fetched /\ ~accepted(proxyOp'.resp)) =>
         /\ proxyPool'.currentProxy = IF proxyPool.currentProxy # null
                                      THEN proxyPool.currentProxy
                                      ELSE proxyPool.staticProxy
         /\ proxyPool'.lastFetchTime = proxyPool.lastFetchTime
         /\ (proxyOp'.resp.kind = "ok" /\ proxyPool'.currentProxy # proxyPool.currentProxy)
               => proxyPool'.currentProxy # <<trimUrl(proxyOp'.resp.text)>>]_vars

\* The pool answered ftp://p1 to a fetch while a fetched proxy was current,
\* and that proxy is still current.
C26_Witness ==
    /\ proxyOp.fetched
    /\ proxyOp.resp.kind = "ok"
    /\ proxyOp.resp.text.scheme = "ftp"
    /\ proxyHist.installedAt # null
    /\ proxyPool.currentProxy # null
    /\ proxyPool.currentProxy # proxyPool.staticProxy
    /\ proxyPool.currentProxy[1].scheme # "ftp"

\* ------------------------------------------------------------------------
\* Claims about the Grok media cache
\* ------------------------------------------------------------------------
\* No call of download is under way and no cleanup is in progress.
quiet ==
    /\ \A d \in Downloads : download[d].pc \in {"idle", "returned"}
    /\ cleaning.pc = "idle"

totalSize == sumSizes({f \in CacheFiles : cacheDir[f].exists})

\* C27: after a download has written a file, once the evictions it scheduled
\* have finished and no further write happens, the total size of the cache
\* directory is at most the cap, and every deleted file had an mtime no later
\* than that of every file kept.
C27_WithinCapOldestEvicted ==
    (quiet /\ mediaHist.writes > 0) =>
        /\ totalSize <= MaxBytes
        /\ \A f \in CacheFiles :
              cacheDir[f].exists => mediaHist.newestEvicted <= cacheDir[f].mtime

\* C30: a call of download that has begun its attempts returns, whatever the
\* upstream answers.
C30_DownloadReturns ==
    \A d \in Downloads : (download[d].pc = "attempt") ~> (download[d].pc = "returned")

\* ------------------------------------------------------------------------
\* Claims about repeated calls of the selector
\* ------------------------------------------------------------------------
\* C28: a release of c right after a release of c leaves the selector as it
\* is, and a release of a credential that is not leased or not registered
\* changes no inUse flag, cursor or skip window.
C28_ReleaseIdempotent ==
    [][\A c \in Accounts : OpsRelease(c) =>
          /\ (selOp.op = "release" /\ selOp.account = c) => UNCHANGED selVars
          /\ (c \notin accountMap \/ ~inUse[c]) =>
                UNCHANGED <<accountMap, inUse, order, cursor, skippedUntil>>
          /\ \A d \in Accounts \ {c} : inUse'[d] = inUse[d]]_vars

\* A leased credential has been released twice in a row.
C28_Witness ==
    /\ selOp.op = "release"
    /\ selOp.again
    /\ selOp.held
    /\ selOp.account \in accountMap
    /\ ~inUse[selOp.account]
    /\ \E m \in Models : cursor[m] > 0

NoDuplicates(seq) == \A i, j \in 1..Len(seq) : seq[i] = seq[j] => i = j

\* C29: a register of credentials that are registered, for models whose
\* rings hold them, changes nothing; no register puts a credential twice in
\* a ring, reorders a ring, moves a cursor or resets the inUse flag of a
\* credential that is known.
C29_RegisterIdempotent ==
    [][(selOp'.op = "register" /\ OpsRegister(selOp'.accounts, selOp'.models)) =>
          LET accounts == selOp'.accounts
              models == selOp'.models
          IN
             /\ (/\ \A i \in 1..Len(accounts) : accounts[i] \in accountMap
                 /\ \A i \in 1..Len(accounts), j \in 1..Len(models) :
                       Contains(order[models[j]], accounts[i]))
                   => UNCHANGED selVars
             /\ \A m \in Models :
                   /\ NoDuplicates(order'[m])
                   /\ Len(order'[m]) >= Len(order[m])
                   /\ SubSeq(order'[m], 1, Len(order[m])) = order[m]
             /\ cursor' = cursor
             /\ \A a \in accountMap : inUse'[a] = inUse[a]]_vars

\* Credentials that were registered, one of them leased, have been
\* registered again, and the lease and the cursor are still there.
C29_Witness ==
    /\ selOp.op = "register"
    /\ selOp.again
    /\ selOp.held
    /\ \E a \in accountMap : inUse[a]
    /\ \E m \in Models : cursor[m] > 0 /\ Len(order[m]) = 2

\* ------------------------------------------------------------------------
\* Claims about the retry policy of the Grok calls
\* ------------------------------------------------------------------------
\* C31: in every Grok call that follows the retry policy, the attempt that
\* retries after a 403 is preceded by a forced proxy refresh.
C31_RefreshBefore403Retry ==
    \A c \in PolicyCallers :
       (policy[c].pc = "fetch" /\ policy[c].status = "403") =>
          policy[c].calls = <<"forceRefreshGrokProxy", "getGrokProxy">>

\* ------------------------------------------------------------------------
\* Claims about getToken with its read in flight
\* ------------------------------------------------------------------------
\* C32: when invalidateToken or a watcher event for a file has happened while
\* a getToken read of the file was in flight, what was read before is not
\* installed as a fresh entry: a getToken started after the invalidation,
\* the file not having changed since, returns what the file holds.
C32_StaleReadNotInstalled ==
    (ret # NoRet /\ ~ret.read /\ race.raced /\ ~race.changedAfter) =>
        ret.data = readToken(disk[ret.file])

\* ------------------------------------------------------------------------
\* Claims about the proxy pool with its fetches in flight
\* ------------------------------------------------------------------------
\* C33: at any time at most one fetch to the proxy pool URL is in progress.
C33_OneFetchInFlight == Cardinality(fetching) <= 1

\* ------------------------------------------------------------------------
\* Claims about one account file under concurrent operations
\* ------------------------------------------------------------------------
writers == {a \in AccountAgents : acct.ag[a].pc = "writing"}

\* C34: at any time at most one write to a given credential file is in
\* progress, across requests, their polls and the background refresher.
C34_OneWriterPerFile == Cardinality(writers) <= 1

\* C39: once the token is stored as expired, no step of a request or of the
\* refresher stores it as active again.
C39_ExpiredStaysExpired ==
    [][acct.file.status = "expired" => acct'.file.status = "expired"]_vars

\* C40: when n failures of requests on the token have been recorded, with no
\* other operation on it, the stored failedCount is n higher than at the start.
C40_NoLostFailure ==
    (acct.booted /\ acct.onlyFailures /\ \A a \in AccountAgents : acct.ag[a].pc = "idle")
        => acct.file.failedCount = acct.start + acct.fails

\* ------------------------------------------------------------------------
\* Claims about the token refresh service
\* ------------------------------------------------------------------------
\* C35: after stopTokenRefreshService the refresher starts no rate-limit poll
\* and no write of an account file.
C35_NothingAfterStop == ~svc.pollAfterStop /\ ~svc.writeAfterStop

\* C36: a poll of a token starts only if the token is not expired, has
\* failedCount below 3, and was not polled in the 60 minutes before.
C36_PollOnlyWhenDue ==
    \A c \in Cycles :
       svc.cycle[c].pc = "poll" =>
          LET t == Head(svc.cycle[c].rest)
          IN  /\ svc.docs[t].status # "expired"
              /\ svc.docs[t].failedCount < 3
              /\ svc.cycle[c].prev = -1 \/ svc.cycle[c].at - svc.cycle[c].prev >= REFRESH_INTERVAL

\* ------------------------------------------------------------------------
\* Claims about the Grok output stream
\* ------------------------------------------------------------------------
contentFrames == {i \in 1 .. Len(grokStream.frames) : grokStream.frames[i].content # ""}
roleFrames == {i \in 1 .. Len(grokStream.frames) : grokStream.frames[i].role}
stopFrames == {i \in 1 .. Len(grokStream.frames) : grokStream.frames[i].finish_reason = "stop"}

\* C37: a stream that emitted content and ended has exactly one frame with
\* the role, its first content frame, and ends with one finish_reason stop
\* frame followed by [DONE].
C37_OneRoleFrameThenStopDone ==
    (grokStream.pc = "closed" /\ contentFrames # {}) =>
        LET n == Len(grokStream.frames)
        IN  /\ roleFrames = {CHOOSE i \in contentFrames : \A j \in contentFrames : i <= j}
            /\ stopFrames = {n - 1}
            /\ grokStream.frames[n] = DONE

\* ------------------------------------------------------------------------
\* Claims about GET /images/*
\* ------------------------------------------------------------------------
inside(dir, filePath) ==
    Len(filePath) > Len(dir) /\ SubSeq(filePath, 1, Len(dir)) = dir

\* C38: whatever the path parameter, the file served lies inside data/temp.
C38_ServedInsideTemp == img.status = "served" => inside(tempDir, img.filePath)

====
